---- MODULE Spec2Model ----
(***************************************************************************)
(* A model of objavi/epub.py: the EPUB -> bookizip conversion.             *)
(*                                                                         *)
(* Python strings are sequences of one-character strings, so that          *)
(* concatenation, splitting and stripping are computed as the code         *)
(* computes them.  Python's None is the value None below, which is no      *)
(* string.  A dict is a function whose DOMAIN is the set of its keys.      *)
(***************************************************************************)
EXTENDS Integers, Sequences, FiniteSets, TLC

VARIABLES
    \* Epub.parse_opf
    opf_file,       \* self.opf_file
    opf_items,      \* the <item> children of <manifest>: id -> <<href, media-type>>
    opfdir,         \* self.opfdir
    manifest,       \* self.manifest: id -> <<path, mimetype>>
    media_map,      \* self.media_map: original path -> output path
    opf_spine,      \* the <spine>: its toc attribute and its idrefs
    epub_spine,     \* self.spine
    ncxfile,        \* self.ncxfile
    opf_pc,         \* "start" | "parsed" | "KeyError" | "idle"
    \* add_guts
    dbody,          \* the <body> of the destination document
    sources,        \* the source bodies spliced so far, in splice order
    \* get_chapter_breaks
    points,         \* self.ncxdata['navmap']['points']
    pwd,            \* os.path.dirname(self.ncxfile)
    serial_points,  \* the first value returned
    splits,         \* the second value returned: file -> breaks
    breaks_pc,      \* "start" | "done" | "idle"
    \* get_labels, find_good_label
    ncx_e,          \* the NCX element whose labels are read
    labels,         \* get_labels' result: language -> text
    label_lang,     \* the language asked of find_good_label
    label_result,   \* what find_good_label returned, or TypeError
    labels_pc,      \* "start" | "labelled" | "found" | "idle"
    \* drop_empty_chapters
    chapters,       \* split_tree's chapters: [ID, title, tree]
    real_chapters,  \* the chapters kept
    passes,         \* how many times the filter was applied
    \* Epub.make_bookizip: the chapters and the table of contents
    lang,           \* self.find_language()
    spine,          \* the ids of the chapters written
    bz_files,       \* the archive: id -> file name of the entry
    bz_entries,     \* the calls of bz.add_to_package: <<ID, fn, mediatype>>
    nodes,          \* the tocpoint dicts made so far, in order of creation
    made_for,       \* made_for[i]: the point whose write_toc call made nodes[i]
    toc,            \* the list toc, of indices into nodes
    deferred_urls,  \* the list deferred_urls, of indices into nodes
    stack,          \* the write_toc calls in progress, innermost last
    top_i,          \* the index of the next point of the loop over points
    toc_pc,         \* "start" | "toc" | "done" | "KeyError" | "TypeError" | "idle"
    \* parse_metadata and the metadata merge of Epub.make_bookizip
    md_elems,       \* metadata.iterdescendants(): the elements of <metadata>
    metadata,       \* self.metadata: namespace -> tag -> list of (value, extra)
    out_metadata,   \* the dict metadata of make_bookizip
    md_nsmap,       \* metadata.nsmap: prefix -> namespace
    source_id,      \* the class attribute Epub.source_id
    obj_source_id,  \* the attribute source_id of each Epub object, or Unset
    primary_id,     \* primary_id of make_bookizip
    src_id,         \* src_id of make_bookizip
    meta_pc,        \* "start" | "parsed" | "ids" | "merged" | "done" | "KeyError" | "idle"
    \* Epub.parse_meta
    rootfiles,      \* the <rootfile> elements of META-INF/container.xml
    container_pc,   \* "start" | "done" | "EpubError" | "idle"
    \* Epub.concat_document: the links of one spine file
    link_file,      \* fn: the path of the spine file
    links,          \* the href and src attributes of the file, as loaded
    new_links,      \* the same attributes after root.rewrite_links
    links_pc,       \* "start" | "done" | "idle"
    \* Epub.concat_document: the split markers of one spine file
    mk_file,        \* fn: the path of the spine file
    mk_body,        \* the children of the file's <body>, in order
    mk_lang,        \* lang = self.find_language()
    markers_pc,     \* "start" | "done" | "IndexError" | "TypeError" | "idle"
    \* two Epub objects converted side by side
    heap,           \* the list objects made by deferred_urls = []
    deferred_ref,   \* per object: the list its deferred_urls names, 0 before
    todo,           \* per object: the points write_toc has yet to visit
    visited,        \* per object: how many points write_toc has visited
    registered,     \* per object: the id last registered on it, else None
    two_pc          \* per object: "new" | "toc" | "done" | "idle"

vars == <<opf_file, opf_items, opfdir, manifest, media_map, opf_spine, epub_spine,
          ncxfile, opf_pc,
          dbody, sources,
          points, pwd, serial_points, splits, breaks_pc,
          ncx_e, labels, label_lang, label_result, labels_pc,
          chapters, real_chapters, passes,
          lang, spine, bz_files, bz_entries, nodes, made_for, toc, deferred_urls, stack,
          top_i,
          toc_pc,
          md_elems, metadata, out_metadata, md_nsmap, source_id, obj_source_id,
          primary_id, src_id, meta_pc,
          rootfiles, container_pc,
          link_file, links, new_links, links_pc,
          mk_file, mk_body, mk_lang, markers_pc,
          heap, deferred_ref, todo, visited, registered, two_pc>>

----------------------------------------------------------------------------
(* Bounds *)

MaxPathLen == 3     \* longest href of a manifest item
MaxItems == 2       \* most items of a manifest
MaxKids == 1        \* most child elements of a source body
MaxSplices == 2     \* most add_guts calls on one destination
MaxPoints == 3      \* most navigation points of a navigation tree
MaxLabels == 2      \* most label children of an NCX element
MaxChapters == 2    \* most chapters the splitter returns
MaxPasses == 2      \* most applications of the empty-chapter filter
MaxMeta == 2        \* most elements of the metadata section
MaxRootfiles == 3   \* most <rootfile> elements of the container
MaxLinks == 2       \* most links of a spine file
MaxTodo == 2        \* most navigation points of one of two conversions

----------------------------------------------------------------------------
(* Python values *)

None == <<"<None>">>

Range(f) == {f[x] : x \in DOMAIN f}

EmptyDict == [x \in {} |-> None]

\* an attribute of self, or a local variable, that no statement has set yet
Unset == <<"<unset>">>

\* the strings over an alphabet of length lo..hi
StrsOver(alphabet, lo, hi) == UNION {[1..k -> alphabet] : k \in lo..hi}

\* all orders in which a set can be listed
Perms(S) == {p \in [1..Cardinality(S) -> S] : \A x \in S : \E i \in DOMAIN p : p[i] = x}

\* d[k] = v
DictSet(d, k, v) == (k :> v) @@ d

\* s.rfind(c) + 1: the length of the prefix ending in the last c, 0 if none
RECURSIVE RFind1(_, _)
RFind1(s, c) ==
    IF s = <<>> THEN 0
    ELSE IF s[Len(s)] = c THEN Len(s)
    ELSE RFind1(SubSeq(s, 1, Len(s) - 1), c)

\* s.rstrip('/')
RECURSIVE RStripSlash(_)
RStripSlash(s) ==
    IF s # <<>> /\ s[Len(s)] = "/" THEN RStripSlash(SubSeq(s, 1, Len(s) - 1)) ELSE s

\* os.path.dirname (posixpath)
dirname(p) ==
    LET head == SubSeq(p, 1, RFind1(p, "/"))
    IN  IF head # <<>> /\ \E i \in DOMAIN head : head[i] # "/"
        THEN RStripSlash(head)
        ELSE head

\* os.path.join(a, b) (posixpath)
join(a, b) ==
    IF b # <<>> /\ b[1] = "/" THEN b
    ELSE IF a = <<>> \/ a[Len(a)] = "/" THEN a \o b
    ELSE a \o <<"/">> \o b

\* the ids of navigation points, which the split markers and the chapters
\* cut at them carry too
NavIds == {<<"n", "1">>, <<"n", "2">>, <<"n", "3">>}

----------------------------------------------------------------------------
(* Epub.parse_opf: the manifest and the media rename map *)

MARKUP_TYPES == {"application/xhtml+xml", "text/html", "application/x-dtbncx+xml"}

S_static == <<"s", "t", "a", "t", "i", "c", "/">>

\* parse_manifest: items[id] = (os.path.join(pwd, href), media_type)
parse_manifest(items, dir) ==
    [id \in DOMAIN items |-> <<join(dir, items[id][1]), items[id][2]>>]

\* fn.rsplit('/', 1)[1] when '/' in fn
Basename(fn) ==
    IF \E i \in DOMAIN fn : fn[i] = "/"
    THEN SubSeq(fn, RFind1(fn, "/") + 1, Len(fn))
    ELSE fn

\* while fn in self.media_map.values(): fn = '_' + fn
RECURSIVE Uniquify(_, _)
Uniquify(fn, mm) ==
    IF fn \in Range(mm) THEN Uniquify(<<"_">> \o fn, mm) ELSE fn

\* the body of the loop over self.manifest.items(), for one item
MediaMapStep(mm, v) ==
    LET oldfn == v[1]
        mimetype == v[2]
    IN  IF mimetype \notin MARKUP_TYPES
        THEN DictSet(mm, oldfn, S_static \o Uniquify(Basename(oldfn), mm))
        ELSE mm

\* the loop over self.manifest.items(), in the order the dict lists them
RECURSIVE MediaMapLoop(_, _, _, _)
MediaMapLoop(mf, order, i, mm) ==
    IF i > Len(order) THEN mm
    ELSE MediaMapLoop(mf, order, i + 1, MediaMapStep(mm, mf[order[i]]))

ItemIds == {<<"i", "1">>, <<"i", "2">>, <<"i", "3">>}
PathChars == {"a", "/", "_"}
MediaTypes == {"image/jpeg", "text/html"}
OpfFiles == {<<"c">>, <<"O", "/", "c">>}

\* hrefs are relative paths with no empty segment
Hrefs ==
    {h \in StrsOver(PathChars, 1, MaxPathLen) :
        /\ h[1] # "/"
        /\ h[Len(h)] # "/"
        /\ \A i \in 1..(Len(h) - 1) : ~(h[i] = "/" /\ h[i + 1] = "/")}

ManifestItems ==
    UNION {[D -> Hrefs \X MediaTypes] :
           D \in {D \in SUBSET ItemIds : Cardinality(D) <= MaxItems}}

\* the toc attribute of <spine> and the idrefs of its itemrefs
OpfSpines ==
    [toc : {<<"i", "1">>, None}, idrefs : {<<>>, <<<<"i", "1">>>>, <<<<"i", "2">>>>}]

\* parse_opf is over, and only the manifest it left is read
OpfRestIdle ==
    /\ opf_file = None
    /\ opf_items = EmptyDict
    /\ opfdir = None
    /\ media_map = EmptyDict
    /\ opf_spine = [toc |-> None, idrefs |-> <<>>]
    /\ epub_spine = <<>>
    /\ ncxfile = None
    /\ opf_pc = "idle"

OpfIdle == OpfRestIdle /\ manifest = EmptyDict

opf_rest ==
    <<opf_file, opf_items, opfdir, media_map, opf_spine, epub_spine, ncxfile, opf_pc>>
opf_vars == <<opf_rest, manifest>>

----------------------------------------------------------------------------
(* add_guts: splicing one body onto another *)

guts_vars == <<dbody, sources>>

\* x or d
Or(x, d) == IF x = None \/ x = <<>> THEN d ELSE x

\* new_doc(): <body></body>
EmptyBody == [text |-> None, children |-> <<>>, tail |-> None]

add_guts(sbody, db) ==
    LET n == Len(db.children)
        joined ==
            IF n > 0
            THEN [db EXCEPT !.children[n].tail =
                     Or(Or(db.children[n].tail, <<>>) \o Or(sbody.text, <<>>), None)]
            ELSE [db EXCEPT !.text = sbody.text]
        appended == [joined EXCEPT !.children = @ \o sbody.children]
    IN  [appended EXCEPT !.tail = Or(Or(db.tail, <<>>) \o Or(sbody.tail, <<>>), None)]

BodyTexts == {None, <<>>, <<"A">>, <<"B">>}
\* the lenient parser moves what follows </body> into the body, and the
\* body built for an image has no tail: a source body's tail holds no text
BodyTails == {None, <<>>}
Elements == [tag : {"p"}, text : {None, <<"c">>}, tail : {None, <<"t">>}]
SrcBodies ==
    [text : BodyTexts,
     children : UNION {[1..k -> Elements] : k \in 0..MaxKids},
     tail : BodyTails]

GutsStart ==
    /\ dbody = EmptyBody
    /\ sources = <<>>

GutsIdle ==
    /\ dbody = None
    /\ sources = <<>>

AddGuts ==
    /\ Len(sources) < MaxSplices
    /\ \E sbody \in SrcBodies :
          /\ dbody' = add_guts(sbody, dbody)
          /\ sources' = Append(sources, sbody)

----------------------------------------------------------------------------
(* get_ncxtext, get_labels, find_good_label *)

labels_vars == <<ncx_e, labels, label_lang, label_result, labels_pc>>

\* an exception raised by str.join on a value that is no string
TypeError == <<"<TypeError>">>

S_en == <<"e", "n">>
S_fr == <<"f", "r">>
S_sep == <<" ", "|", " ">>

\* e.iter(tag): e and its descendants in document order, those of the tag
RECURSIVE Iter(_, _), IterEach(_, _)
Iter(e, tag) ==
    (IF e.tag = tag THEN <<e>> ELSE <<>>) \o IterEach(e.kids, tag)

IterEach(es, tag) ==
    IF es = <<>> THEN <<>> ELSE Iter(es[1], tag) \o IterEach(Tail(es), tag)

get_ncxtext(e) ==
    LET ts == Iter(e, "text")
    IN  IF ts # <<>> THEN ts[1].text ELSE <<>>

\* the loop of get_labels over e.iterchildren(tag)
RECURSIVE LabelsLoop(_, _, _, _)
LabelsLoop(e, tag, i, ls) ==
    IF i > Len(e.kids) THEN ls
    ELSE IF e.kids[i].tag = tag
         THEN LabelsLoop(e, tag, i + 1, DictSet(ls, e.kids[i].lang, get_ncxtext(e)))
         ELSE LabelsLoop(e, tag, i + 1, ls)

get_labels(e, tag) == LabelsLoop(e, tag, 1, EmptyDict)

\* sep.join(strs): a TypeError when an item is None
RECURSIVE PyJoin(_, _)
PyJoin(sep, strs) ==
    IF \E i \in DOMAIN strs : strs[i] = None THEN TypeError
    ELSE IF strs = <<>> THEN <<>>
    ELSE IF Len(strs) = 1 THEN strs[1]
    ELSE strs[1] \o sep \o PyJoin(sep, Tail(strs))

\* find_good_label(labels, lang); order is the order in which the dict
\* lists its keys
find_good_label(ls, lg, order) ==
    IF lg \in DOMAIN ls THEN ls[lg]
    ELSE IF None \in DOMAIN ls THEN ls[None]
    ELSE IF DOMAIN ls # {}
         THEN PyJoin(S_sep, [i \in DOMAIN order |-> ls[order[i]]])
         ELSE None

Langs == {None, S_en, S_fr}
TextElements == [tag : {"text"}, lang : {None}, text : {None, <<"x">>, <<"y">>}, kids : {<<>>}]
LabelElements ==
    [tag : {"navLabel", "navInfo"}, lang : Langs, text : {None},
     kids : {<<>>} \cup {<<t>> : t \in TextElements}]
NcxElements ==
    [tag : {"navPoint"}, lang : {None}, text : {None},
     kids : UNION {[1..k -> LabelElements] : k \in 0..MaxLabels}]

LabelsStart ==
    /\ ncx_e \in NcxElements
    /\ labels = EmptyDict
    /\ label_lang = None
    /\ label_result = None
    /\ labels_pc = "start"

LabelsIdle ==
    /\ ncx_e = None
    /\ labels = EmptyDict
    /\ label_lang = None
    /\ label_result = None
    /\ labels_pc = "idle"

\* 'labels': get_labels(e)
GetLabels ==
    /\ labels_pc = "start"
    /\ labels' = get_labels(ncx_e, "navLabel")
    /\ labels_pc' = "labelled"
    /\ UNCHANGED <<ncx_e, label_lang, label_result>>

FindGoodLabel ==
    /\ labels_pc = "labelled"
    /\ \E lg \in Langs, order \in Perms(DOMAIN labels) :
          /\ label_lang' = lg
          /\ label_result' = find_good_label(labels, lg, order)
    /\ labels_pc' = "found"
    /\ UNCHANGED <<ncx_e, labels>>

----------------------------------------------------------------------------
(* drop_empty_chapters.  A chapter's tree is the list of its elements in  *)
(* document order, as c.tree.iter() yields them.                          *)

chapters_vars == <<chapters, real_chapters, passes>>

Whitespace == {" ", "\t", "\n", "\r"}

\* s.strip()
RECURSIVE Strip(_)
Strip(s) ==
    IF s = <<>> THEN s
    ELSE IF s[1] \in Whitespace THEN Strip(Tail(s))
    ELSE IF s[Len(s)] \in Whitespace THEN Strip(SubSeq(s, 1, Len(s) - 1))
    ELSE s

\* the truth value of a string or None
Truthy(x) == x # None /\ x # <<>>

\* the test on one element, without the test for an image
HasTextOnly(e) ==
    \/ Truthy(e.text) /\ Truthy(Strip(e.text))
    \/ Truthy(e.tail) /\ Truthy(Strip(e.tail))

\* the test on one element
HasContent(e) ==
    \/ Truthy(e.text) /\ Truthy(Strip(e.text))
    \/ Truthy(e.tail) /\ Truthy(Strip(e.tail))
    \/ e.tag \in {"img"}

\* for e in c.tree.iter(): ... good = True; break
RECURSIVE ScanTree(_, _)
ScanTree(tree, i) ==
    IF i > Len(tree) THEN FALSE
    ELSE IF HasContent(tree[i]) THEN TRUE
    ELSE ScanTree(tree, i + 1)

RECURSIVE DropLoop(_, _, _)
DropLoop(cs, i, good_chapters) ==
    IF i > Len(cs) THEN good_chapters
    ELSE IF ScanTree(cs[i].tree, 1)
         THEN DropLoop(cs, i + 1, Append(good_chapters, cs[i]))
         ELSE DropLoop(cs, i + 1, good_chapters)

\* the filter that drops nothing
KeepAllChapters(cs) == cs

drop_empty_chapters(cs) == DropLoop(cs, 1, <<>>)

ChapterElements ==
    [tag : {"p", "img"}, text : {None, <<" ">>, <<" ", "x">>}, tail : {None, <<"\n">>, <<"y", "\n">>}]
RootElement == [tag |-> "html", text |-> None, tail |-> None]
ChapterTrees == {<<e>> : e \in ChapterElements} \cup {<<RootElement, e>> : e \in ChapterElements}
Chapters == [ID : {<<"n", "1">>, <<"n", "2">>}, title : {None}, tree : ChapterTrees]

ChaptersStart ==
    /\ chapters \in UNION {[1..k -> Chapters] : k \in 0..MaxChapters}
    /\ real_chapters = <<>>
    /\ passes = 0

ChaptersIdle ==
    /\ chapters = <<>>
    /\ real_chapters = <<>>
    /\ passes = 0

\* real_chapters = drop_empty_chapters(chapters)
DropEmptyChapters ==
    /\ passes = 0
    /\ real_chapters' = drop_empty_chapters(chapters)
    /\ passes' = 1
    /\ UNCHANGED chapters

\* the filter applied to its own result
DropEmptyChaptersAgain ==
    /\ passes > 0
    /\ passes < MaxPasses
    /\ real_chapters' = drop_empty_chapters(real_chapters)
    /\ passes' = passes + 1
    /\ UNCHANGED chapters

----------------------------------------------------------------------------
(* The navigation tree: parse_navpoint's dicts *)

NavPoint(a, subpoints) ==
    [id |-> a.id, play_order |-> a.play_order, content_src |-> a.content_src,
     labels |-> a.labels, points |-> subpoints]

\* the lists of navigation points holding n points in all, children
\* included, every point's own fields drawn from A
RECURSIVE NavLists(_, _)
NavLists(n, A) ==
    IF n = 0 THEN {<<>>}
    ELSE UNION {
            {<<NavPoint(a, sub)>> \o rest :
                a \in A, sub \in NavLists(k - 1, A), rest \in NavLists(n - k, A)} :
            k \in 1..n}

NavTrees(A) == UNION {NavLists(n, A) : n \in 0..MaxPoints}

----------------------------------------------------------------------------
(* get_chapter_breaks *)

breaks_rest == <<pwd, serial_points, splits, breaks_pc>>
breaks_vars == <<breaks_rest, points>>

\* serialise(p, depth), and the loops that call it
RECURSIVE serialise(_, _), SerialiseEach(_, _)
serialise(p, depth) ==
    <<<<depth, p>>>> \o
        (IF p.points = <<>> THEN <<>> ELSE SerialiseEach(p.points, depth + 1))

SerialiseEach(ps, depth) ==
    IF ps = <<>> THEN <<>>
    ELSE serialise(ps[1], depth) \o SerialiseEach(Tail(ps), depth)

\* insertion into a list sorted by play_order
RECURSIVE InsertByPlayOrder(_, _)
InsertByPlayOrder(p, ps) ==
    IF ps = <<>> THEN <<p>>
    ELSE IF p.play_order < ps[1].play_order THEN <<p>> \o ps
    ELSE <<ps[1]>> \o InsertByPlayOrder(p, Tail(ps))

RECURSIVE SortByPlayOrder(_)
SortByPlayOrder(ps) ==
    IF ps = <<>> THEN <<>>
    ELSE InsertByPlayOrder(ps[1], SortByPlayOrder(Tail(ps)))

\* a serialisation that follows play_order at the top level
SerialPointsByPlayOrder(ps) == SerialiseEach(SortByPlayOrder(ps), 1)

\* for p in points: serialise(p, 1)
SerialPoints(ps) == SerialiseEach(ps, 1)

\* url.split('#', 1) when '#' in url
RECURSIVE Find(_, _, _)
Find(s, c, i) ==
    IF i > Len(s) THEN 0 ELSE IF s[i] = c THEN i ELSE Find(s, c, i + 1)

\* a split at the last '#' of the url
SplitTargetLast(src, dir) ==
    LET url == join(dir, src)
        h == RFind1(url, "#")
    IN  IF h > 0
        THEN <<SubSeq(url, 1, h - 1), SubSeq(url, h + 1, Len(url))>>
        ELSE <<url, None>>

\* the (url, ID) that one point's content_src gives
SplitTarget(src, dir) ==
    LET url == join(dir, src)
        h == Find(url, "#", 1)
    IN  IF h > 0
        THEN <<SubSeq(url, 1, h - 1), SubSeq(url, h + 1, Len(url))>>
        ELSE <<url, None>>

\* the loop over serial_points that fills splits
RECURSIVE SplitsLoop(_, _, _, _)
SplitsLoop(serial, dir, i, sp) ==
    IF i > Len(serial) THEN sp
    ELSE LET depth == serial[i][1]
             p == serial[i][2]
             t == SplitTarget(p.content_src, dir)
             s == IF t[1] \in DOMAIN sp THEN sp[t[1]] ELSE <<>>
         IN  SplitsLoop(serial, dir, i + 1,
                        DictSet(sp, t[1], Append(s, <<depth, t[2], p>>)))

\* content sources are references: a '#' starts the fragment, and the
\* directory of the navigation document holds none
BreakSrcs == {<<"f">>, <<"f", "#", "s", "#">>, <<"g", "#", "s">>}
BreakPoints ==
    [id : {<<"n", "1">>}, play_order : 1..2, content_src : BreakSrcs, labels : {EmptyDict}]

BreaksStart ==
    /\ points \in NavTrees(BreakPoints)
    /\ pwd \in {<<>>, <<"O">>}
    /\ serial_points = <<>>
    /\ splits = EmptyDict
    /\ breaks_pc = "start"

BreaksRestIdle ==
    /\ pwd = None
    /\ serial_points = <<>>
    /\ splits = EmptyDict
    /\ breaks_pc = "idle"

BreaksIdle == BreaksRestIdle /\ points = <<>>

GetChapterBreaks ==
    /\ breaks_pc = "start"
    /\ serial_points' = SerialPoints(points)
    /\ splits' = SplitsLoop(serial_points', pwd, 1, EmptyDict)
    /\ breaks_pc' = "done"
    /\ UNCHANGED <<points, pwd>>

----------------------------------------------------------------------------
(* Epub.make_bookizip: writing the chapters, then write_toc.  A tocpoint  *)
(* dict is a function on the keys it holds; nodes[i] is the i-th dict      *)
(* made, and lists of tocpoints hold such indices, so that a dict in       *)
(* deferred_urls and in a children list is one object.                     *)

toc_vars ==
    <<lang, spine, bz_files, bz_entries, nodes, made_for, toc, deferred_urls, stack,
      top_i, toc_pc>>

S_html == <<".", "h", "t", "m", "l">>

\* ID in spine
InList(x, list) == \E i \in DOMAIN list : list[i] = x

\* d.get(k, default)
DictGet(d, k, default) == IF k \in DOMAIN d THEN d[k] ELSE default

\* the loop over real_chapters: the entries added to the archive
RECURSIVE AddChapters(_, _, _)
AddChapters(cs, i, files) ==
    IF i > Len(cs) THEN files
    ELSE AddChapters(cs, i + 1, DictSet(files, cs[i].ID, cs[i].ID \o S_html))

\* the loop over real_chapters: the calls of bz.add_to_package
ChapterEntries(cs) == [i \in DOMAIN cs |-> <<cs[i].ID, cs[i].ID \o S_html, "text/html">>]

\* the loop over self.manifest.iteritems(), in the order the dict lists
\* them: the calls of bz.add_to_package
RECURSIVE MediaEntries(_, _, _, _)
MediaEntries(mf, mm, order, i) ==
    IF i > Len(order) THEN <<>>
    ELSE LET id == order[i]
             fn == mf[id][1]
             mimetype == mf[id][2]
         IN  (IF mimetype \notin MARKUP_TYPES THEN <<<<id, mm[fn], mimetype>>>> ELSE <<>>)
                 \o MediaEntries(mf, mm, order, i + 1)

\* a back-patch that serves the last deferred tocpoint alone
PopDeferredOnce(ns, dq, url) ==
    IF dq = <<>> THEN [nodes |-> ns, deferred |-> dq, raised |-> FALSE]
    ELSE LET tp == dq[Len(dq)]
         IN  [nodes |-> [ns EXCEPT ![tp] = DictSet(@, "url", url)],
              deferred |-> <<>>,
              raised |-> "title" \notin DOMAIN ns[tp]]

\* a back-patch that serves the tocpoints and leaves them in the list
RECURSIVE PatchWithoutPop(_, _, _)
PatchWithoutPop(ns, dq, url) ==
    IF dq = <<>> THEN [nodes |-> ns, deferred |-> dq, raised |-> FALSE]
    ELSE LET tp == dq[Len(dq)]
             served == PatchWithoutPop([ns EXCEPT ![tp] = DictSet(@, "url", url)],
                                       SubSeq(dq, 1, Len(dq) - 1), url)
         IN  [nodes |-> served.nodes, deferred |-> dq,
              raised |-> served.raised \/ "title" \notin DOMAIN ns[tp]]

\* while deferred_urls: tp = deferred_urls.pop(); tp['url'] = ...; log(...)
\* The log line reads tp['title']: a KeyError when tp has no title.
RECURSIVE PopDeferred(_, _, _)
PopDeferred(ns, dq, url) ==
    IF dq = <<>> THEN [nodes |-> ns, deferred |-> dq, raised |-> FALSE]
    ELSE LET tp == dq[Len(dq)]
             ns2 == [ns EXCEPT ![tp] = DictSet(@, "url", url)]
             dq2 == SubSeq(dq, 1, Len(dq) - 1)
         IN  IF "title" \notin DOMAIN ns2[tp]
             THEN [nodes |-> ns2, deferred |-> dq2, raised |-> TRUE]
             ELSE PopDeferred(ns2, dq2, url)

\* a tocpoint put at the head of its section
SectionPrepend(ns, tl, section, node) ==
    IF section = 0
    THEN [nodes |-> ns, toc |-> <<node>> \o tl]
    ELSE [nodes |-> [ns EXCEPT ![section] = DictSet(@, "children", <<node>> \o @["children"])],
          toc |-> tl]

\* section.append(tocpoint): section 0 is the list toc, section n the
\* children list of nodes[n]
SectionAppend(ns, tl, section, node) ==
    IF section = 0
    THEN [nodes |-> ns, toc |-> Append(tl, node)]
    ELSE [nodes |-> [ns EXCEPT ![section] = DictSet(@, "children", Append(@["children"], node))],
          toc |-> tl]

TocLabels == {EmptyDict, None :> <<"T">>}
TocPoints == [id : NavIds, play_order : {1}, content_src : {<<"f">>}, labels : TocLabels]

\* manifests that hold, or do not hold, an item with the id of a point
TocManifests ==
    {EmptyDict,
     <<"n", "1">> :> <<<<"n", "1", ".", "x">>, "application/xhtml+xml">>}

ImageTree == <<[tag |-> "img", text |-> None, tail |-> None]>>
BlankTree == <<[tag |-> "p", text |-> <<" ">>, tail |-> None]>>

\* the splitter cuts one chapter at the marker of each id, some of them
\* empty
TocChapters ==
    {<<[ID |-> <<"n", "1">>, title |-> None, tree |-> t1],
       [ID |-> <<"n", "2">>, title |-> None, tree |-> t2],
       [ID |-> <<"n", "3">>, title |-> None, tree |-> t3]>> :
        t1 \in {ImageTree, BlankTree}, t2 \in {ImageTree, BlankTree},
        t3 \in {ImageTree, BlankTree}}

TocStart ==
    /\ points \in NavTrees(TocPoints)
    /\ manifest \in TocManifests
    /\ chapters \in TocChapters
    /\ real_chapters = <<>>
    /\ passes = 0
    /\ lang = None
    /\ spine = <<>>
    /\ bz_files = EmptyDict
    /\ bz_entries = <<>>
    /\ nodes = <<>>
    /\ made_for = <<>>
    /\ toc = <<>>
    /\ deferred_urls = <<>>
    /\ stack = <<>>
    /\ top_i = 1
    /\ toc_pc = "start"

TocIdle ==
    /\ lang = None
    /\ spine = <<>>
    /\ bz_files = EmptyDict
    /\ bz_entries = <<>>
    /\ nodes = <<>>
    /\ made_for = <<>>
    /\ toc = <<>>
    /\ deferred_urls = <<>>
    /\ stack = <<>>
    /\ top_i = 1
    /\ toc_pc = "idle"

\* lines 293-335: the chapters are filtered and written, the spine is
\* built, the other files are copied
WriteChapters ==
    /\ toc_pc = "start"
    /\ real_chapters' = drop_empty_chapters(chapters)
    /\ passes' = 1
    /\ spine' = [i \in DOMAIN real_chapters' |-> real_chapters'[i].ID]
    /\ bz_files' = AddChapters(real_chapters', 1, EmptyDict)
    /\ \E order \in Perms(DOMAIN manifest) :
          bz_entries' = ChapterEntries(real_chapters')
                            \o MediaEntries(manifest, media_map, order, 1)
    /\ toc_pc' = "toc"
    /\ UNCHANGED <<points, manifest, chapters, lang, nodes, made_for, toc, deferred_urls,
                   stack, top_i>>

\* one call of write_toc(point, section), up to the loop over the
\* point's children; callers is the stack of the calls that wait for it
WriteTocCall(point, section, callers) ==
    \E order \in Perms(DOMAIN point.labels) :
        LET title == find_good_label(point.labels, lang, order)
            titled == IF Truthy(title) THEN DictSet(EmptyDict, "title", title) ELSE EmptyDict
            ID == point.id
            url == DictGet(manifest, ID, ID \o S_html)
            resolved == DictSet(titled, "url", url)
            me == Len(nodes) + 1
            popped == PopDeferred(nodes, deferred_urls, url)
            kids(tp) == IF point.points # <<>> THEN DictSet(tp, "children", <<>>) ELSE tp
            frame == [point |-> point, node |-> me, section |-> section, next |-> 1]
        IN  IF title = TypeError
            THEN /\ toc_pc' = "TypeError"
                 /\ UNCHANGED <<nodes, made_for, deferred_urls, stack>>
            ELSE /\ made_for' = Append(made_for, point)
                 /\ IF InList(ID, spine)
                    THEN IF popped.raised
                         THEN /\ nodes' = Append(popped.nodes, resolved)
                              /\ deferred_urls' = popped.deferred
                              /\ toc_pc' = "KeyError"
                              /\ UNCHANGED stack
                         ELSE /\ nodes' = Append(popped.nodes, kids(resolved))
                              /\ deferred_urls' = popped.deferred
                              /\ stack' = Append(callers, frame)
                              /\ UNCHANGED toc_pc
                    ELSE /\ nodes' = Append(nodes, kids(titled))
                         /\ deferred_urls' = Append(deferred_urls, me)
                         /\ stack' = Append(callers, frame)
                         /\ UNCHANGED toc_pc

\* for p in points: write_toc(p, toc)
WriteTocTop ==
    /\ toc_pc = "toc"
    /\ stack = <<>>
    /\ top_i <= Len(points)
    /\ WriteTocCall(points[top_i], 0, stack)
    /\ top_i' = top_i + 1
    /\ UNCHANGED <<points, manifest, chapters, real_chapters, passes, lang, spine,
                   bz_files, bz_entries, toc>>

\* for child in point['points']: write_toc(child, tocpoint['children'])
WriteTocChild ==
    /\ toc_pc = "toc"
    /\ stack # <<>>
    /\ LET f == stack[Len(stack)]
       IN  /\ f.next <= Len(f.point.points)
           /\ WriteTocCall(f.point.points[f.next], f.node,
                           [stack EXCEPT ![Len(stack)].next = f.next + 1])
    /\ UNCHANGED <<points, manifest, chapters, real_chapters, passes, lang, spine,
                   bz_files, bz_entries, toc, top_i>>

\* the end of a write_toc call: section.append(tocpoint)
WriteTocReturn ==
    /\ toc_pc = "toc"
    /\ stack # <<>>
    /\ LET f == stack[Len(stack)]
           r == SectionAppend(nodes, toc, f.section, f.node)
       IN  /\ f.next > Len(f.point.points)
           /\ nodes' = r.nodes
           /\ toc' = r.toc
           /\ stack' = SubSeq(stack, 1, Len(stack) - 1)
    /\ UNCHANGED <<points, manifest, chapters, real_chapters, passes, lang, spine,
                   bz_files, bz_entries, made_for, deferred_urls, top_i, toc_pc>>

\* the loop over points is over: toc is the table of contents
TocEnd ==
    /\ toc_pc = "toc"
    /\ stack = <<>>
    /\ top_i > Len(points)
    /\ toc_pc' = "done"
    /\ UNCHANGED <<points, manifest, chapters, real_chapters, passes, lang, spine,
                   bz_files, bz_entries, nodes, made_for, toc, deferred_urls, stack, top_i>>

----------------------------------------------------------------------------
(* parse_metadata, and the merge of self.metadata in Epub.make_bookizip.  *)
(* Names of namespaces, tags and values are atoms; an attribute name or a  *)
(* meta name is the list of its parts, "{OPF}" standing for the default    *)
(* namespace in Clark's notation.  The extra of a value is a dict (meta    *)
(* elements) or a tuple of (key, value) pairs (other elements).            *)

meta_vars ==
    <<md_elems, metadata, out_metadata, md_nsmap, source_id, obj_source_id,
      primary_id, src_id, meta_pc>>

\* the Epub objects of the process; Self is the one converted here
Objs == {"e1", "e2"}
Self == "e1"

\* self.source_id: the object's own attribute, else the class attribute
SourceIdOf(o) ==
    IF obj_source_id[o] # Unset THEN obj_source_id[o] ELSE source_id

DC == "DC"
FM == "FM"
OPF == "OPF"

\* metadata.nsmap, which every element of the section shares: the three
\* prefixes the source expects, and with or without one for FM
nsmap == ("<None>" :> OPF) @@ ("dc" :> DC) @@ ("opf" :> OPF)
NsMaps == {nsmap, ("fm" :> FM) @@ nsmap}

\* k.replace(default_ns, '')
RECURSIVE StripDefaultNs(_)
StripDefaultNs(k) ==
    IF k = <<>> THEN <<>>
    ELSE IF k[1] = "{OPF}" THEN StripDefaultNs(Tail(k))
    ELSE <<k[1]>> \o StripDefaultNs(Tail(k))

\* dict((k, v) for k, v in t.items() if k not in ('name', 'content'))
OthersOf(attrs) ==
    [k \in {attrs[i][1] : i \in DOMAIN attrs} |->
        attrs[CHOOSE i \in DOMAIN attrs : attrs[i][1] = k][2]]

\* tuple((k.replace(default_ns, ''), v) for k, v in t.items())
ExtraOf(attrs) ==
    [i \in DOMAIN attrs |-> <<StripDefaultNs(attrs[i][1]), attrs[i][2]>>]

\* add_item(ns, tag, value, extra)
add_item(nsdict, ns, tag, value, extra) ==
    LET bin == IF ns \in DOMAIN nsdict THEN nsdict[ns] ELSE EmptyDict
        values == IF tag \in DOMAIN bin THEN bin[tag] ELSE <<>>
    IN  DictSet(nsdict, ns, DictSet(bin, tag, Append(values, <<value, extra>>)))

\* the loop over metadata.iterdescendants()
RECURSIVE ParseLoop(_, _, _, _)
ParseLoop(elems, nsm, i, nsdict) ==
    IF i > Len(elems) THEN nsdict
    ELSE LET t == elems[i]
         IN  IF t.tag = "meta"
             THEN LET colon == Find(t.name, ":", 1)
                      prefix == IF colon > 0 THEN t.name[1] ELSE "<None>"
                      name == IF colon > 0 THEN SubSeq(t.name, colon + 1, Len(t.name))
                              ELSE t.name
                  IN  ParseLoop(elems, nsm, i + 1,
                          add_item(nsdict, nsm[prefix], name[1], t.content,
                                   [dict |-> OthersOf(t.attrs)]))
             ELSE IF t.tag \in {"dc-metadata", "x-metadata"}
             THEN ParseLoop(elems, nsm, i + 1, nsdict)
             ELSE ParseLoop(elems, nsm, i + 1,
                      add_item(nsdict, nsm[t.prefix], t.tag, t.text,
                               [tuple |-> ExtraOf(t.attrs)]))

\* nsdict = dict((v, {}) for v in nsmap.values()), then the loop
parse_metadata(elems, nsm) ==
    ParseLoop(elems, nsm, 1, [ns \in Range(nsm) |-> EmptyDict])

\* t.nsmap[prefix] of a meta element raises KeyError for an unknown prefix
MetaPrefix(t) ==
    IF Find(t.name, ":", 1) > 0 THEN t.name[1] ELSE "<None>"
UnknownPrefix(elems, nsm) ==
    \E i \in DOMAIN elems : elems[i].tag = "meta" /\ MetaPrefix(elems[i]) \notin DOMAIN nsm

\* if extra: the truth value of a dict or a tuple
ExtraTruthy(extra) ==
    IF "dict" \in DOMAIN extra THEN DOMAIN extra.dict # {} ELSE extra.tuple # <<>>

\* x in extra: x is a key of the dict, or an item of the tuple (its items
\* are pairs, x is a name)
ExtraHas(extra, x) ==
    IF "dict" \in DOMAIN extra THEN x \in DOMAIN extra.dict
    ELSE \E i \in DOMAIN extra.tuple : extra.tuple[i] = x

\* the scheme of one value
SchemeOf(extra) ==
    IF ~ExtraTruthy(extra) THEN <<>>
    ELSE IF ExtraHas(extra, <<"scheme">>) THEN extra.dict[<<"scheme">>]
    ELSE IF ExtraHas(extra, <<"role">>) THEN extra.dict[<<"role">>]
    ELSE <<>>

\* for value, extra in values: dest.setdefault(scheme, []).append(value)
RECURSIVE MergeValues(_, _, _)
MergeValues(values, i, dest) ==
    IF i > Len(values) THEN dest
    ELSE LET scheme == SchemeOf(values[i][2])
             old == IF scheme \in DOMAIN dest THEN dest[scheme] ELSE <<>>
         IN  MergeValues(values, i + 1, DictSet(dest, scheme, Append(old, values[i][1])))

\* for key, values in keys.items(): each key fills its own dest
MergeKeys(keys, into) ==
    [key \in DOMAIN keys \cup DOMAIN into |->
        IF key \in DOMAIN keys
        THEN MergeValues(keys[key], 1, IF key \in DOMAIN into THEN into[key] ELSE EmptyDict)
        ELSE into[key]]

\* for namespace, keys in self.metadata.items().  The test
\* 'namespace' not in metadata asks for the key 'namespace', which the dict
\* never holds: metadata[namespace] is reset for every namespace.
RECURSIVE MergeLoop(_, _, _, _)
MergeLoop(md, order, i, out) ==
    IF i > Len(order) THEN out
    ELSE LET namespace == order[i]
             reset == IF "namespace" \notin DOMAIN out
                      THEN DictSet(out, namespace, EmptyDict)
                      ELSE out
         IN  MergeLoop(md, order, i + 1,
                       DictSet(reset, namespace, MergeKeys(md[namespace], reset[namespace])))

\* metadata = {FM: {'book': {}, 'server': {}}, DC: {}}
NewMetadata ==
    (FM :> (("book" :> EmptyDict) @@ ("server" :> EmptyDict))) @@ (DC :> EmptyDict)

MetaAttrs ==
    {<<>>,
     <<<<<<"{OPF}", "role">>, <<"aut">>>>>>,
     <<<<<<"scheme">>, <<"S">>>>>>}
MetaElements ==
    [tag : {"creator"}, prefix : {"dc"}, text : {<<"A">>, <<"B">>}, attrs : MetaAttrs]
        \cup [tag : {"identifier"}, prefix : {"dc"}, text : {<<"A", "-", "1">>, None},
               attrs : MetaAttrs]
        \cup [tag : {"dc-metadata"}, prefix : {"<None>"}, text : {None}, attrs : {<<>>}]
        \cup [tag : {"meta"}, prefix : {"<None>"},
               name : {<<"dc", ":", "creator">>, <<"dc", ":", "identifier">>},
               content : {<<"A">>, <<"B">>}, attrs : MetaAttrs]
        \cup [tag : {"meta"}, prefix : {"<None>"},
               name : {<<"fm", ":", "book">>, <<"fm", ":", "server">>, <<"cover">>},
               content : {<<"A">>}, attrs : {<<>>}]

\* the ids espri registers
SourceIds == {<<"S">>}
\* zfn, and the values time.strftime may return
Zfn == <<"z">>
Timestamps == {<<"1">>, <<"2">>}
\* config.DEFAULT_BOOKI_SERVER
DEFAULT_BOOKI_SERVER == <<"w">>

MetaStart ==
    /\ md_elems \in UNION {[1..k -> MetaElements] : k \in 0..MaxMeta}
    /\ md_nsmap \in NsMaps
    /\ metadata = EmptyDict
    /\ out_metadata = EmptyDict
    /\ source_id = None
    /\ obj_source_id = [o \in Objs |-> Unset]
    /\ primary_id = Unset
    /\ src_id = Unset
    /\ meta_pc = "start"

MetaIdle ==
    /\ md_elems = <<>>
    /\ md_nsmap = nsmap
    /\ metadata = EmptyDict
    /\ out_metadata = EmptyDict
    /\ source_id = None
    /\ obj_source_id = [o \in Objs |-> Unset]
    /\ primary_id = Unset
    /\ src_id = Unset
    /\ meta_pc = "idle"

\* an assignment that lands on the class
SetClassAttr(objs, cls, o, v) == [objs |-> objs, cls |-> v]

\* self.source_id = src_id: the assignment makes an attribute of the object
SetAttr(objs, cls, o, v) == [objs |-> [objs EXCEPT ![o] = v], cls |-> cls]

\* register_source_id(self, src_id)
RegisterSourceId(o, id) ==
    /\ LET r == SetAttr(obj_source_id, source_id, o, id)
       IN  obj_source_id' = r.objs /\ source_id' = r.cls
    /\ UNCHANGED <<md_elems, md_nsmap, metadata, out_metadata, primary_id, src_id,
                   meta_pc>>

\* espri calls it once, before the parse
RegisterSelf ==
    /\ meta_pc = "start"
    /\ obj_source_id[Self] = Unset
    /\ \E id \in SourceIds : RegisterSourceId(Self, id)

\* self.metadata = parse_metadata(metadata)
ParseMetadata ==
    /\ meta_pc = "start"
    /\ IF UnknownPrefix(md_elems, md_nsmap)
       THEN meta_pc' = "KeyError" /\ UNCHANGED metadata
       ELSE metadata' = parse_metadata(md_elems, md_nsmap) /\ meta_pc' = "parsed"
    /\ UNCHANGED <<md_elems, md_nsmap, out_metadata, source_id, obj_source_id,
                   primary_id, src_id>>

\* the value of the last identifier recorded, where the code takes the first
LastIdentifier(md) ==
    IF "identifier" \in DOMAIN md[DC]
    THEN md[DC]["identifier"][Len(md[DC]["identifier"])][1]
    ELSE None

\* self.metadata[DC].get('identifier', [[None]])[0][0]
FirstIdentifier(md) ==
    IF "identifier" \in DOMAIN md[DC] THEN md[DC]["identifier"][1][1] ELSE None

\* lines 297-302 of make_bookizip
ChooseIds ==
    /\ meta_pc = "parsed"
    /\ IF FirstIdentifier(metadata) = None
       THEN /\ \E t \in Timestamps : primary_id' = Zfn \o <<"-">> \o t
            /\ src_id' = None
       ELSE /\ primary_id' = FirstIdentifier(metadata)
            /\ src_id' = SourceIdOf(Self)
    /\ meta_pc' = "ids"
    /\ UNCHANGED <<md_elems, md_nsmap, metadata, out_metadata, source_id, obj_source_id>>

\* lines 367-385 of make_bookizip
MergeMetadata ==
    /\ meta_pc = "ids"
    /\ \E order \in Perms(DOMAIN metadata) :
          out_metadata' = MergeLoop(metadata, order, 1, NewMetadata)
    /\ meta_pc' = "merged"
    /\ UNCHANGED <<md_elems, md_nsmap, metadata, source_id, obj_source_id, primary_id,
                   src_id>>

\* x.isalnum(), over the characters of the ids
IsAlnum(x) == x \notin {"-", ".", " ", "_"}

\* ''.join(x for x in primary_id if x.isalnum())
Alnums(id) == SelectSeq(id, IsAlnum)

\* if not metadata[FM][key]: metadata[FM][key][''] = [value]
FmDefault(md, key, value) ==
    IF md[FM][key] = EmptyDict
    THEN DictSet(md, FM, DictSet(md[FM], key, <<>> :> <<value>>))
    ELSE md

\* the assignment ids[src_id] = [primary_id] without its test
BrandIdsAlways(md, sid, pid) ==
    DictSet(md, DC, DictSet(md[DC], "identifier",
                            DictSet(md[DC]["identifier"], sid, <<pid>>)))

\* ids = metadata[DC]['identifier']; if ids.get(src_id) is None: ...
BrandIds(md, sid, pid) ==
    LET ids == md[DC]["identifier"]
    IN  IF sid \notin DOMAIN ids
        THEN DictSet(md, DC, DictSet(md[DC], "identifier", DictSet(ids, sid, <<pid>>)))
        ELSE md

\* lines 387-396 of make_bookizip
FinishMetadata ==
    /\ meta_pc = "merged"
    /\ IF "book" \notin DOMAIN out_metadata[FM]
       THEN meta_pc' = "KeyError" /\ UNCHANGED out_metadata
       ELSE LET booked == FmDefault(out_metadata, "book", Alnums(primary_id))
            IN  IF "server" \notin DOMAIN booked[FM]
                THEN meta_pc' = "KeyError" /\ out_metadata' = booked
                ELSE LET served == FmDefault(booked, "server", DEFAULT_BOOKI_SERVER)
                     IN  /\ out_metadata' =
                               IF src_id # None THEN BrandIds(served, src_id, primary_id)
                               ELSE served
                         /\ meta_pc' = "done"
    /\ UNCHANGED <<md_elems, md_nsmap, metadata, source_id, obj_source_id, primary_id,
                   src_id>>

----------------------------------------------------------------------------
(* Epub.parse_opf, the whole stage: metadata, manifest, media rename map,  *)
(* spine and the path of the navigation document                           *)

\* the metadata section is not the subject: it is empty, or holds one
\* <meta> whose name has a prefix that the section does not declare
OpfMetadatas ==
    {<<>>,
     <<[tag |-> "meta", prefix |-> "<None>", name |-> <<"fm", ":", "book">>,
        content |-> <<"A">>, attrs |-> <<>>]>>}

\* before parse_opf no attribute it assigns exists
OpfUnset ==
    /\ opfdir = Unset
    /\ metadata = Unset
    /\ manifest = Unset
    /\ media_map = Unset
    /\ epub_spine = Unset
    /\ ncxfile = Unset
    /\ opf_pc = "start"
    /\ md_nsmap = nsmap
    /\ out_metadata = EmptyDict
    /\ source_id = None
    /\ obj_source_id = [o \in Objs |-> Unset]
    /\ primary_id = Unset
    /\ src_id = Unset
    /\ meta_pc = "idle"

OpfStart ==
    /\ opf_file \in OpfFiles
    /\ opf_items \in ManifestItems
    /\ opf_spine \in OpfSpines
    /\ md_elems \in OpfMetadatas
    /\ OpfUnset

\* parse_spine(spine): (toc, items)
parse_spine(sp) == <<sp.toc, sp.idrefs>>

\* lines 156-185.  A KeyError leaves what the statements before it assigned.
ParseOpf ==
    /\ opf_pc = "start"
    /\ opfdir' = dirname(opf_file)
    /\ IF UnknownPrefix(md_elems, md_nsmap)
       THEN /\ opf_pc' = "KeyError"
            /\ UNCHANGED <<metadata, manifest, media_map, epub_spine, ncxfile>>
       ELSE LET mf == parse_manifest(opf_items, opfdir')
                ncxid == parse_spine(opf_spine)[1]
            IN  /\ metadata' = parse_metadata(md_elems, md_nsmap)
                /\ manifest' = mf
                /\ \E order \in Perms(DOMAIN mf) :
                      media_map' = MediaMapLoop(mf, order, 1, EmptyDict)
                /\ epub_spine' = parse_spine(opf_spine)[2]
                /\ IF ncxid \in DOMAIN mf
                   THEN ncxfile' = mf[ncxid][1] /\ opf_pc' = "parsed"
                   ELSE opf_pc' = "KeyError" /\ UNCHANGED ncxfile
    /\ UNCHANGED <<opf_file, opf_items, opf_spine, md_elems, md_nsmap, out_metadata,
                   source_id, obj_source_id, primary_id, src_id, meta_pc>>

----------------------------------------------------------------------------
(* Epub.parse_meta: the root document named by META-INF/container.xml *)

container_vars == <<rootfiles, container_pc>>

S_package == "application/oebps-package+xml"

\* the loop without its break: the last rootfile of the package type from
\* i on, 0 when there is none
RECURSIVE LastPackage(_, _)
LastPackage(rfs, i) ==
    IF i > Len(rfs) THEN 0
    ELSE LET later == LastPackage(rfs, i + 1)
         IN  IF later # 0 THEN later
             ELSE IF rfs[i].media_type = S_package THEN i
             ELSE 0

\* for r in tree.getiterator(...): if ...: break.  The index at which the
\* loop breaks, 0 when it runs into its else branch
RECURSIVE FirstPackage(_, _)
FirstPackage(rfs, i) ==
    IF i > Len(rfs) THEN 0
    ELSE IF rfs[i].media_type = S_package THEN i
    ELSE FirstPackage(rfs, i + 1)

Rootfiles ==
    [media_type : {S_package, "application/pdf", None},
     full_path : {<<"a">>, <<"b">>}]

ContainerStart ==
    /\ rootfiles \in UNION {[1..k -> Rootfiles] : k \in 0..MaxRootfiles}
    /\ container_pc = "start"
    /\ opf_file = Unset
    /\ opf_items = EmptyDict
    /\ opfdir = None
    /\ manifest = EmptyDict
    /\ media_map = EmptyDict
    /\ opf_spine = [toc |-> None, idrefs |-> <<>>]
    /\ epub_spine = <<>>
    /\ ncxfile = None
    /\ opf_pc = "idle"

ContainerIdle ==
    /\ rootfiles = <<>>
    /\ container_pc = "idle"

ParseMeta ==
    /\ container_pc = "start"
    /\ LET i == FirstPackage(rootfiles, 1)
       IN  IF i = 0
           THEN /\ container_pc' = "EpubError"
                /\ UNCHANGED opf_file
           ELSE /\ opf_file' = rootfiles[i].full_path
                /\ container_pc' = "done"
    /\ UNCHANGED <<rootfiles, opf_items, opfdir, manifest, media_map, opf_spine,
                   epub_spine, ncxfile, opf_pc>>

----------------------------------------------------------------------------
(* Epub.concat_document: rewriting the links of a spine file, after        *)
(* parse_opf has made the media rename map                                 *)

links_vars == <<link_file, links, new_links, links_pc>>

\* mimetype.startswith('image')
IsImage(mimetype) == mimetype = "image/jpeg"

\* lambda x: self.media_map.get(os.path.join(self.opfdir, x), x)
RewriteLink(x, dir, mm) ==
    IF join(dir, x) \in DOMAIN mm THEN mm[join(dir, x)] ELSE x

LinkHrefs == {<<"a">>, <<"a", "/", "a">>, <<"a", "/", "_">>}
LinkItems ==
    UNION {[D -> LinkHrefs \X MediaTypes] :
           D \in {D \in SUBSET ItemIds : Cardinality(D) <= MaxItems}}

LinksStart ==
    /\ opf_file \in OpfFiles
    /\ opf_items \in LinkItems
    /\ opf_spine \in [toc : DOMAIN opf_items \cup {None}, idrefs : {<<id>> : id \in ItemIds}]
    /\ md_elems = <<>>
    /\ OpfUnset
    /\ links \in UNION {[1..k -> LinkHrefs] : k \in 1..MaxLinks}
    /\ link_file = None
    /\ new_links = <<>>
    /\ links_pc = "start"

LinksIdle ==
    /\ links = <<>>
    /\ link_file = None
    /\ new_links = <<>>
    /\ links_pc = "idle"

\* one turn of the loop over self.spine, lines 255-269, for a file that is
\* not an image; self.manifest[ID] raises KeyError for an id it lacks
RewriteLinks ==
    /\ opf_pc = "parsed"
    /\ links_pc = "start"
    /\ \E i \in DOMAIN epub_spine :
          LET ID == epub_spine[i]
          IN  IF ID \notin DOMAIN manifest
              THEN /\ links_pc' = "KeyError"
                   /\ UNCHANGED <<link_file, new_links>>
              ELSE /\ ~IsImage(manifest[ID][2])
                   /\ link_file' = manifest[ID][1]
                   /\ new_links' =
                         [j \in DOMAIN links |-> RewriteLink(links[j], opfdir, media_map)]
                   /\ links_pc' = "done"
    /\ UNCHANGED <<links, opf_vars, meta_vars>>

----------------------------------------------------------------------------
(* Epub.concat_document and add_marker: the split markers put into one     *)
(* spine file, after get_chapter_breaks.  An element is its tag, its       *)
(* attributes and uid, which tells one element object from another.        *)

markers_vars == <<mk_file, mk_body, mk_lang, markers_pc>>

MARKER_CLASS_SPLIT == <<"espri-marker-name-clash-with-no-one--split">>
S_untitled == <<"untitled">>

\* str(bool(x)) of a tuple
StrBool(x) == IF x # <<>> THEN <<"True">> ELSE <<"False">>

\* parent.index(el)
IndexOf(body, uid) == CHOOSE i \in DOMAIN body : body[i].uid = uid

\* parent.insert(index, marker)
Insert(body, index, el) ==
    SubSeq(body, 1, index - 1) \o <<el>> \o SubSeq(body, index, Len(body))

\* add_marker(el, ID, klass=klass, **kwargs) with child false; the new
\* element takes the next unused uid
add_marker(body, el, ID, klass, kwargs) ==
    Insert(body, IndexOf(body, el),
           [tag |-> "hr", uid |-> Len(body) + 1,
            attrs |-> kwargs @@ ("class" :> klass) @@ ("id" :> ID)])

\* the keyword arguments of the call without the fallback of the title
SplitKwargsBare(point, label) ==
    ("title" :> label) @@ ("subsections" :> StrBool(point.points))

\* title=find_good_label(labels, lang) or 'untitled',
\* subsections=str(bool(point['points']))
SplitKwargs(point, label) ==
    ("title" :> IF Truthy(label) THEN label ELSE S_untitled)
        @@ ("subsections" :> StrBool(point.points))

\* root.xpath("//*[@id='%s']" % fragment): the uids of the elements found
WithId(body, fragment) ==
    SelectSeq([i \in DOMAIN body |-> body[i]],
              LAMBDA e : "id" \in DOMAIN e.attrs /\ e.attrs["id"] = fragment)

\* the order in which a dict of at most one key lists its keys
KeyOrder(d) == CHOOSE order \in Perms(DOMAIN d) : TRUE

\* for depth, fragment, point in chapter_markers.get(fn, ())
RECURSIVE MarkersLoop(_, _, _, _, _)
MarkersLoop(breaks, i, body, first_el, lg) ==
    IF i > Len(breaks) THEN [body |-> body, raised |-> "no"]
    ELSE LET fragment == breaks[i][2]
             point == breaks[i][3]
             found == WithId(body, fragment)
             label == find_good_label(point.labels, lg, KeyOrder(point.labels))
         IN  IF Truthy(fragment) /\ found = <<>>
             THEN [body |-> body, raised |-> "IndexError"]
             ELSE IF label = TypeError
             THEN [body |-> body, raised |-> "TypeError"]
             ELSE MarkersLoop(breaks, i + 1,
                      add_marker(body,
                                 IF Truthy(fragment) THEN found[1].uid ELSE first_el,
                                 point.id, MARKER_CLASS_SPLIT, SplitKwargs(point, label)),
                      first_el, lg)

MarkerPoints ==
    {[id |-> <<"n", "1">>, play_order |-> 1, content_src |-> <<"f">>, labels |-> EmptyDict],
     [id |-> <<"n", "2">>, play_order |-> 1, content_src |-> <<"f", "#", "s">>,
      labels |-> None :> <<"T">>],
     [id |-> <<"n", "1">>, play_order |-> 1, content_src |-> <<"f", "#", "s">>,
      labels |-> S_en :> <<"E">>],
     [id |-> <<"s">>, play_order |-> 1, content_src |-> <<"f">>,
      labels |-> None :> None],
     [id |-> <<"n", "3">>, play_order |-> 1, content_src |-> <<"g">>,
      labels |-> S_fr :> None]}

BodyChild(uid, id) ==
    [tag |-> "p", uid |-> uid, attrs |-> IF id = None THEN EmptyDict ELSE "id" :> id]
MarkerBodies ==
    {<<>>,
     <<BodyChild(1, None)>>,
     <<BodyChild(1, None), BodyChild(2, <<"s">>)>>,
     <<BodyChild(1, <<"s">>), BodyChild(2, <<"s">>)>>}

MarkersStart ==
    /\ points \in NavTrees(MarkerPoints)
    /\ pwd = <<>>
    /\ serial_points = <<>>
    /\ splits = EmptyDict
    /\ breaks_pc = "start"
    /\ mk_file \in {<<"f">>, <<"g">>}
    /\ mk_body \in MarkerBodies
    /\ mk_lang \in {None, S_en}
    /\ markers_pc = "start"

MarkersIdle ==
    /\ mk_file = None
    /\ mk_body = <<>>
    /\ mk_lang = None
    /\ markers_pc = "idle"

\* lines 267-280, for the spine file fn
InsertMarkers ==
    /\ breaks_pc = "done"
    /\ markers_pc = "start"
    /\ IF mk_body = <<>>
       THEN markers_pc' = "IndexError" /\ UNCHANGED mk_body
       ELSE LET r == MarkersLoop(DictGet(splits, mk_file, <<>>), 1, mk_body,
                                 mk_body[1].uid, mk_lang)
            IN  /\ mk_body' = r.body
                /\ markers_pc' = IF r.raised = "no" THEN "done" ELSE r.raised
    /\ UNCHANGED <<mk_file, mk_lang, breaks_vars>>

----------------------------------------------------------------------------
(* Epub.make_bookizip after Epub.parse_opf: the entries of the archive *)

ArchiveStart ==
    /\ opf_file \in OpfFiles
    /\ opf_items \in LinkItems
    /\ opf_spine \in [toc : DOMAIN opf_items \cup {None}, idrefs : {<<>>}]
    /\ md_elems = <<>>
    /\ OpfUnset
    /\ chapters \in TocChapters
    /\ real_chapters = <<>>
    /\ passes = 0
    /\ lang = None
    /\ spine = <<>>
    /\ bz_files = EmptyDict
    /\ bz_entries = <<>>
    /\ nodes = <<>>
    /\ made_for = <<>>
    /\ toc = <<>>
    /\ deferred_urls = <<>>
    /\ stack = <<>>
    /\ top_i = 1
    /\ toc_pc = "start"

----------------------------------------------------------------------------
(* Two Epub objects converted side by side: register_source_id on either, *)
(* and the deferred_urls of their make_bookizip calls.  Of write_toc only  *)
(* what it does to deferred_urls is kept: a point whose chapter survives   *)
(* empties the list, any other point appends its tocpoint.                 *)

two_vars == <<heap, deferred_ref, todo, visited, registered, two_pc>>

TwoIds == {<<"S">>, <<"T">>}

\* a list display that yields a list made before
SharedList(h) == [heap |-> IF h = <<>> THEN <<<<>>>> ELSE h, ref |-> 1]

\* deferred_urls = []: each evaluation makes a new list
NewList(h) == [heap |-> Append(h, <<>>), ref |-> Len(h) + 1]

TwoStart ==
    /\ heap = <<>>
    /\ deferred_ref = [o \in Objs |-> 0]
    /\ todo \in [Objs -> UNION {[1..k -> BOOLEAN] : k \in 0..MaxTodo}]
    /\ visited = [o \in Objs |-> 0]
    /\ registered = [o \in Objs |-> None]
    /\ two_pc = [o \in Objs |-> "new"]

TwoIdle ==
    /\ heap = <<>>
    /\ deferred_ref = [o \in Objs |-> 0]
    /\ todo = [o \in Objs |-> <<>>]
    /\ visited = [o \in Objs |-> 0]
    /\ registered = [o \in Objs |-> None]
    /\ two_pc = [o \in Objs |-> "idle"]

\* register_source_id on an object not yet converted, any number of
\* times, with an id other than the one it holds
RegisterOn(o, id) ==
    /\ two_pc[o] = "new"
    /\ registered[o] # id
    /\ RegisterSourceId(o, id)
    /\ registered' = [registered EXCEPT ![o] = id]
    /\ UNCHANGED <<heap, deferred_ref, todo, visited, two_pc>>

\* make_bookizip up to line 340
StartToc(o) ==
    /\ two_pc[o] = "new"
    /\ LET r == NewList(heap)
       IN  heap' = r.heap /\ deferred_ref' = [deferred_ref EXCEPT ![o] = r.ref]
    /\ two_pc' = [two_pc EXCEPT ![o] = "toc"]
    /\ UNCHANGED <<todo, visited, registered, meta_vars>>

\* lines 347-354 of one write_toc call
VisitPoint(o) ==
    /\ two_pc[o] = "toc"
    /\ todo[o] # <<>>
    /\ heap' = [heap EXCEPT ![deferred_ref[o]] =
                    IF todo[o][1] THEN <<>> ELSE Append(@, <<o, visited[o] + 1>>)]
    /\ todo' = [todo EXCEPT ![o] = Tail(@)]
    /\ visited' = [visited EXCEPT ![o] = @ + 1]
    /\ UNCHANGED <<deferred_ref, registered, two_pc, meta_vars>>

\* the loop over points is over
EndToc(o) ==
    /\ two_pc[o] = "toc"
    /\ todo[o] = <<>>
    /\ two_pc' = [two_pc EXCEPT ![o] = "done"]
    /\ UNCHANGED <<heap, deferred_ref, todo, visited, registered, meta_vars>>

----------------------------------------------------------------------------
(* Specifications *)

OpfInit ==
    OpfStart /\ GutsIdle /\ BreaksIdle /\ LabelsIdle /\ ChaptersIdle /\
        TocIdle /\ ContainerIdle /\ LinksIdle /\ MarkersIdle /\ TwoIdle
OpfRest ==
    <<guts_vars, breaks_vars, labels_vars, chapters_vars, toc_vars,
      container_vars, links_vars, markers_vars, two_vars>>
OpfNext ==
    \/ ParseOpf /\ UNCHANGED OpfRest
SpecOpf == OpfInit /\ [][OpfNext]_vars

GutsInit ==
    GutsStart /\ OpfIdle /\ BreaksIdle /\ LabelsIdle /\ ChaptersIdle /\
        TocIdle /\ MetaIdle /\ ContainerIdle /\ LinksIdle /\ MarkersIdle /\
        TwoIdle
GutsRest ==
    <<opf_vars, breaks_vars, labels_vars, chapters_vars, toc_vars, meta_vars,
      container_vars, links_vars, markers_vars, two_vars>>
GutsNext ==
    \/ AddGuts /\ UNCHANGED GutsRest
SpecGuts == GutsInit /\ [][GutsNext]_vars

BreaksInit ==
    BreaksStart /\ OpfIdle /\ GutsIdle /\ LabelsIdle /\ ChaptersIdle /\
        TocIdle /\ MetaIdle /\ ContainerIdle /\ LinksIdle /\ MarkersIdle /\
        TwoIdle
BreaksRest ==
    <<opf_vars, guts_vars, labels_vars, chapters_vars, toc_vars, meta_vars,
      container_vars, links_vars, markers_vars, two_vars>>
BreaksNext ==
    \/ GetChapterBreaks /\ UNCHANGED BreaksRest
SpecBreaks == BreaksInit /\ [][BreaksNext]_vars

LabelsInit ==
    LabelsStart /\ OpfIdle /\ GutsIdle /\ BreaksIdle /\ ChaptersIdle /\
        TocIdle /\ MetaIdle /\ ContainerIdle /\ LinksIdle /\ MarkersIdle /\
        TwoIdle
LabelsRest ==
    <<opf_vars, guts_vars, breaks_vars, chapters_vars, toc_vars, meta_vars,
      container_vars, links_vars, markers_vars, two_vars>>
LabelsNext ==
    \/ GetLabels /\ UNCHANGED LabelsRest
    \/ FindGoodLabel /\ UNCHANGED LabelsRest
SpecLabels == LabelsInit /\ [][LabelsNext]_vars

ChaptersInit ==
    ChaptersStart /\ OpfIdle /\ GutsIdle /\ BreaksIdle /\ LabelsIdle /\
        TocIdle /\ MetaIdle /\ ContainerIdle /\ LinksIdle /\ MarkersIdle /\
        TwoIdle
ChaptersRest ==
    <<opf_vars, guts_vars, breaks_vars, labels_vars, toc_vars, meta_vars,
      container_vars, links_vars, markers_vars, two_vars>>
ChaptersNext ==
    \/ DropEmptyChapters /\ UNCHANGED ChaptersRest
    \/ DropEmptyChaptersAgain /\ UNCHANGED ChaptersRest
SpecChapters == ChaptersInit /\ [][ChaptersNext]_vars

TocInit ==
    TocStart /\ OpfRestIdle /\ GutsIdle /\ BreaksRestIdle /\ LabelsIdle /\
        MetaIdle /\ ContainerIdle /\ LinksIdle /\ MarkersIdle /\ TwoIdle
TocRest ==
    <<opf_rest, guts_vars, breaks_rest, labels_vars, meta_vars,
      container_vars, links_vars, markers_vars, two_vars>>
TocNext ==
    \/ WriteChapters /\ UNCHANGED TocRest
    \/ WriteTocTop /\ UNCHANGED TocRest
    \/ WriteTocChild /\ UNCHANGED TocRest
    \/ WriteTocReturn /\ UNCHANGED TocRest
    \/ TocEnd /\ UNCHANGED TocRest
SpecToc == TocInit /\ [][TocNext]_vars

MetaInit ==
    MetaStart /\ OpfIdle /\ GutsIdle /\ BreaksIdle /\ LabelsIdle /\
        ChaptersIdle /\ TocIdle /\ ContainerIdle /\ LinksIdle /\
        MarkersIdle /\ TwoIdle
MetaRest ==
    <<opf_vars, guts_vars, breaks_vars, labels_vars, chapters_vars, toc_vars,
      container_vars, links_vars, markers_vars, two_vars>>
MetaNext ==
    \/ RegisterSelf /\ UNCHANGED MetaRest
    \/ ParseMetadata /\ UNCHANGED MetaRest
    \/ ChooseIds /\ UNCHANGED MetaRest
    \/ MergeMetadata /\ UNCHANGED MetaRest
    \/ FinishMetadata /\ UNCHANGED MetaRest
SpecMeta == MetaInit /\ [][MetaNext]_vars

ContainerInit ==
    ContainerStart /\ GutsIdle /\ BreaksIdle /\ LabelsIdle /\ ChaptersIdle /\
        TocIdle /\ MetaIdle /\ LinksIdle /\ MarkersIdle /\ TwoIdle
ContainerRest ==
    <<guts_vars, breaks_vars, labels_vars, chapters_vars, toc_vars,
      meta_vars, links_vars, markers_vars, two_vars>>
ContainerNext ==
    \/ ParseMeta /\ UNCHANGED ContainerRest
SpecContainer == ContainerInit /\ [][ContainerNext]_vars

LinksInit ==
    LinksStart /\ GutsIdle /\ BreaksIdle /\ LabelsIdle /\ ChaptersIdle /\
        TocIdle /\ ContainerIdle /\ MarkersIdle /\ TwoIdle
LinksRest ==
    <<guts_vars, breaks_vars, labels_vars, chapters_vars, toc_vars,
      container_vars, markers_vars, two_vars>>
LinksNext ==
    \/ ParseOpf /\ UNCHANGED links_vars /\ UNCHANGED LinksRest
    \/ RewriteLinks /\ UNCHANGED LinksRest
SpecLinks == LinksInit /\ [][LinksNext]_vars

MarkersInit ==
    MarkersStart /\ OpfIdle /\ GutsIdle /\ LabelsIdle /\ ChaptersIdle /\
        TocIdle /\ MetaIdle /\ ContainerIdle /\ LinksIdle /\ TwoIdle
MarkersRest ==
    <<opf_vars, guts_vars, labels_vars, chapters_vars, toc_vars, meta_vars,
      container_vars, links_vars, two_vars>>
MarkersNext ==
    \/ GetChapterBreaks /\ UNCHANGED markers_vars /\ UNCHANGED MarkersRest
    \/ InsertMarkers /\ UNCHANGED MarkersRest
SpecMarkers == MarkersInit /\ [][MarkersNext]_vars

ArchiveInit ==
    ArchiveStart /\ GutsIdle /\ BreaksIdle /\ LabelsIdle /\ ContainerIdle /\
        LinksIdle /\ MarkersIdle /\ TwoIdle
ArchiveRest ==
    <<guts_vars, breaks_vars, labels_vars, container_vars, links_vars,
      markers_vars, two_vars>>
ArchiveNext ==
    \/ ParseOpf /\ UNCHANGED <<chapters_vars, toc_vars>> /\ UNCHANGED ArchiveRest
    \/ opf_pc = "parsed" /\ WriteChapters /\ UNCHANGED <<opf_rest, meta_vars>> /\ UNCHANGED ArchiveRest
SpecArchive == ArchiveInit /\ [][ArchiveNext]_vars

TwoInit ==
    TwoStart /\ MetaIdle /\ OpfIdle /\ GutsIdle /\ BreaksIdle /\
        LabelsIdle /\ ChaptersIdle /\ TocIdle /\ ContainerIdle /\
        LinksIdle /\ MarkersIdle
TwoRest ==
    <<opf_vars, guts_vars, breaks_vars, labels_vars, chapters_vars, toc_vars,
      container_vars, links_vars, markers_vars>>
TwoNext ==
    \/ \E o \in Objs, id \in TwoIds : RegisterOn(o, id) /\ UNCHANGED TwoRest
    \/ \E o \in Objs : StartToc(o) /\ UNCHANGED TwoRest
    \/ \E o \in Objs : VisitPoint(o) /\ UNCHANGED TwoRest
    \/ \E o \in Objs : EndToc(o) /\ UNCHANGED TwoRest
SpecTwo == TwoInit /\ [][TwoNext]_vars

----------------------------------------------------------------------------
(* C1: after parse_opf, the output paths of the non-markup items are       *)
(* pairwise distinct: two different original paths never share an output   *)
(* path, also when they share a basename.                                  *)
C1_DistinctOutputPaths ==
    opf_pc = "parsed" =>
        \A p, q \in DOMAIN media_map : p # q => media_map[p] # media_map[q]

\* the text of a body in document order: its text, each child with its
\* tail, its tail
RECURSIVE ChildrenText(_)
ChildrenText(cs) ==
    IF cs = <<>> THEN <<>>
    ELSE Or(cs[1].text, <<>>) \o Or(cs[1].tail, <<>>) \o ChildrenText(Tail(cs))

BodyText(b) == Or(b.text, <<>>) \o ChildrenText(b.children) \o Or(b.tail, <<>>)

RECURSIVE SourcesText(_)
SourcesText(ss) ==
    IF ss = <<>> THEN <<>> ELSE BodyText(ss[1]) \o SourcesText(Tail(ss))

(* C2: after any sequence of splices into an empty destination body, the   *)
(* destination's text in document order is the concatenation of the        *)
(* sources' texts in splice order: nothing dropped, nothing duplicated.    *)
C2_SplicePreservesText == BodyText(dbody) = SourcesText(sources)

\* the places of a list of navigation points: a place is the list of child
\* indices leading to a point
RECURSIVE Places(_)
Places(ps) ==
    UNION {{<<i>>} \cup {<<i>> \o q : q \in Places(ps[i].points)} : i \in DOMAIN ps}

RECURSIVE PointAt(_, _)
PointAt(ps, place) ==
    IF Len(place) = 1 THEN ps[place[1]]
    ELSE PointAt(ps[place[1]].points, Tail(place))

\* document order: a point stands before its descendants, and before all
\* that follows it or its ancestors among their siblings
Before(a, b) ==
    \/ Len(a) < Len(b) /\ SubSeq(b, 1, Len(a)) = a
    \/ \E i \in 1..Len(a) :
          /\ i <= Len(b)
          /\ SubSeq(a, 1, i - 1) = SubSeq(b, 1, i - 1)
          /\ a[i] < b[i]

\* the rank of a place in document order
Rank(ps, place) == 1 + Cardinality({q \in Places(ps) : Before(q, place)})

(* C3: the serialized sequence of get_chapter_breaks is the pre-order      *)
(* listing of the navigation tree in child order, each point with its      *)
(* nesting depth (1 at the top), whatever the play_order values.           *)
C3_SerialIsDocumentOrder ==
    breaks_pc = "done" =>
        /\ Len(serial_points) = Cardinality(Places(points))
        /\ \A place \in Places(points) :
              serial_points[Rank(points, place)] =
                  <<Len(place), PointAt(points, place)>>

\* a tree with a nested point whose play_order values run against document
\* order has been serialized
C3_Witness ==
    /\ breaks_pc = "done"
    /\ Len(points) = 2
    /\ Len(points[1].points) = 1
    /\ points[1].play_order = 2
    /\ points[1].points[1].play_order = 2
    /\ points[2].play_order = 1
    /\ serial_points[3] = <<1, points[2]>>

\* the label children of the element, by index
LabelKids(e) == {i \in DOMAIN e.kids : e.kids[i].tag = "navLabel"}

(* C9: get_labels maps each language tag of a label child to the text of   *)
(* that same label child (no tag: the key None); with two label children   *)
(* of different tags the two keys hold the two texts, and with the same    *)
(* tag the later child's text wins.                                        *)
C9_LabelsHoldOwnText ==
    labels_pc = "labelled" =>
        /\ DOMAIN labels = {ncx_e.kids[i].lang : i \in LabelKids(ncx_e)}
        /\ \A i \in LabelKids(ncx_e) :
              (\A j \in LabelKids(ncx_e) : j > i => ncx_e.kids[j].lang # ncx_e.kids[i].lang)
                  => labels[ncx_e.kids[i].lang] = get_ncxtext(ncx_e.kids[i])

(* C10: find_good_label returns labels[lang] if lang is a key, otherwise   *)
(* the None-keyed label if present, otherwise the join of all labels if    *)
(* there is any, otherwise None; it returns None only for empty labels.    *)
C10_GoodLabel ==
    labels_pc = "found" =>
        /\ label_lang \in DOMAIN labels => label_result = labels[label_lang]
        /\ label_lang \notin DOMAIN labels /\ None \in DOMAIN labels
              => label_result = labels[None]
        /\ label_lang \notin DOMAIN labels /\ None \notin DOMAIN labels /\ DOMAIN labels # {}
              => /\ label_result # TypeError
                 /\ \E order \in Perms(DOMAIN labels) :
                       label_result = PyJoin(S_sep, [i \in DOMAIN order |-> labels[order[i]]])
        /\ DOMAIN labels = {} => label_result = None
        /\ label_result = None => DOMAIN labels = {}

\* some character of the string is no whitespace
HasInk(x) == x # None /\ \E i \in DOMAIN x : x[i] \notin Whitespace

\* the chapter holds an element with visible text or tail, or an image
NotEmpty(c) ==
    \E i \in DOMAIN c.tree :
        HasInk(c.tree[i].text) \/ HasInk(c.tree[i].tail) \/ c.tree[i].tag = "img"

(* C8: drop_empty_chapters returns, in the original order, exactly the     *)
(* chapters holding an element with non-whitespace text or tail or an      *)
(* image element; applying it again to its result changes nothing.         *)
C8_DropsExactlyEmptyChapters ==
    passes > 0 => real_chapters = SelectSeq(chapters, NotEmpty)

\* the filter ran twice on an image-only chapter followed by a chapter of
\* whitespace alone, and kept the first
C8_Witness ==
    /\ passes = 2
    /\ Len(chapters) = 2
    /\ chapters[1].tree = <<[tag |-> "img", text |-> None, tail |-> None]>>
    /\ chapters[2].tree = <<[tag |-> "p", text |-> <<" ">>, tail |-> <<"\n">>]>>
    /\ real_chapters = <<chapters[1]>>

\* the tocpoint standing in the table of contents where the point of the
\* place stands in the navigation tree
RECURSIVE NodeIn(_, _)
NodeIn(section, place) ==
    IF Len(place) = 1 THEN section[place[1]]
    ELSE NodeIn(nodes[section[place[1]]]["children"], Tail(place))

NodeAt(place) == nodes[NodeIn(toc, place)]

Survives(place) == InList(PointAt(points, place).id, spine)

\* the nearest surviving point after the place, in pre-order
NextSurviving(place) ==
    CHOOSE q \in Places(points) :
        /\ Before(place, q)
        /\ Survives(q)
        /\ \A r \in Places(points) : Before(place, r) /\ Survives(r) => r = q \/ Before(q, r)

(* C4: in the table of contents built, every point that is no surviving    *)
(* chapter and has a surviving point after it in pre-order holds the url   *)
(* of the nearest such point.                                              *)
C4_DeferredUrlResolved ==
    toc_pc = "done" =>
        \A p \in Places(points) :
            ~Survives(p) /\ (\E q \in Places(points) : Before(p, q) /\ Survives(q))
                => /\ "url" \in DOMAIN NodeAt(p)
                   /\ NodeAt(p)["url"] = NodeAt(NextSurviving(p))["url"]

\* a dropped point standing between two surviving points of different
\* urls holds the url of the one after it
C4_Witness ==
    /\ toc_pc = "done"
    /\ Len(points) = 3
    /\ points[1].points = <<>>
    /\ Survives(<<1>>) /\ ~Survives(<<2>>) /\ Survives(<<3>>)
    /\ points[1].id # points[3].id
    /\ NodeAt(<<2>>)["url"] = points[3].id \o S_html

(* C6: the url of the tocpoint of every surviving point is the file name   *)
(* under which the chapter of that id was written to the archive.          *)
C6_UrlIsChapterFile ==
    toc_pc = "done" =>
        \A p \in Places(points) :
            Survives(p) => NodeAt(p)["url"] = bz_files[PointAt(points, p).id]

\* the lists of tocpoints mirror the lists of points
RECURSIVE SameShape(_, _)
SameShape(section, ps) ==
    /\ Len(section) = Len(ps)
    /\ \A i \in DOMAIN ps :
          /\ made_for[section[i]] = ps[i]
          /\ IF ps[i].points = <<>>
             THEN "children" \notin DOMAIN nodes[section[i]]
             ELSE /\ "children" \in DOMAIN nodes[section[i]]
                  /\ SameShape(nodes[section[i]]["children"], ps[i].points)

(* C7: the table of contents built has the shape of the navigation tree:   *)
(* one tocpoint for each point, the top-level ones in the order of the     *)
(* top-level points, the children of each in the order of the point's      *)
(* children.                                                               *)
C7_TocMirrorsNavTree ==
    toc_pc = "done" =>
        /\ Len(nodes) = Cardinality(Places(points))
        /\ SameShape(toc, points)
        /\ \A p, q \in Places(points) : p # q => NodeIn(toc, p) # NodeIn(toc, q)

\* the tree [n1[n2], n3] was mirrored, n1 deferred and n2 resolved
C7_Witness ==
    /\ toc_pc = "done"
    /\ Len(points) = 2
    /\ Len(points[1].points) = 1
    /\ ~Survives(<<1>>) /\ Survives(<<1, 1>>)
    /\ Len(toc) = 2
    /\ Len(nodes[toc[1]]["children"]) = 1
    /\ "children" \notin DOMAIN nodes[toc[2]]

\* the extra carries the attribute, in either of its two forms
Carries(extra, k, v) ==
    IF "dict" \in DOMAIN extra
    THEN k \in DOMAIN extra.dict /\ extra.dict[k] = v
    ELSE \E i \in DOMAIN extra.tuple : extra.tuple[i] = <<k, v>>

CarriesKey(extra, k) ==
    IF "dict" \in DOMAIN extra
    THEN k \in DOMAIN extra.dict
    ELSE \E i \in DOMAIN extra.tuple : extra.tuple[i][1] = k

(* C5: when self.metadata holds two Dublin-Core creator entries, the       *)
(* first with the role 'aut' and the second with no scheme and no role,    *)
(* the merged creator bucket holds the first value under 'aut' and the     *)
(* second under '', whichever form the extra attributes have.              *)
C5_CreatorsKeyedByRole ==
    (/\ meta_pc \in {"merged", "done"}
     /\ "creator" \in DOMAIN metadata[DC]
     /\ Len(metadata[DC]["creator"]) = 2
     /\ Carries(metadata[DC]["creator"][1][2], <<"role">>, <<"aut">>)
     /\ ~CarriesKey(metadata[DC]["creator"][1][2], <<"scheme">>)
     /\ ~CarriesKey(metadata[DC]["creator"][2][2], <<"scheme">>)
     /\ ~CarriesKey(metadata[DC]["creator"][2][2], <<"role">>))
        => out_metadata[DC]["creator"] =
               (<<"aut">> :> <<metadata[DC]["creator"][1][1]>>)
                   @@ (<<>> :> <<metadata[DC]["creator"][2][1]>>)

\* the places of the rootfiles that declare the package type
PackageEntries == {i \in DOMAIN rootfiles : rootfiles[i].media_type = S_package}

(* C11: parse_meta raises EpubError and sets no root document when no      *)
(* rootfile declares the package media type; otherwise it succeeds and the *)
(* root document is the full-path of the first rootfile that does,         *)
(* whatever rootfiles of other types stand before it.                      *)
C11_RootDocument ==
    container_pc \in {"done", "EpubError"} =>
        IF PackageEntries = {}
        THEN container_pc = "EpubError" /\ opf_file = Unset
        ELSE /\ container_pc = "done"
             /\ \E i \in PackageEntries :
                   /\ \A j \in PackageEntries : i <= j
                   /\ opf_file = rootfiles[i].full_path

\* a rootfile of another type is passed over, and a later package rootfile
\* with another path is not taken
C11_Witness ==
    /\ container_pc = "done"
    /\ Len(rootfiles) = 3
    /\ rootfiles[1].media_type = "application/pdf"
    /\ PackageEntries = {2, 3}
    /\ rootfiles[2].full_path # rootfiles[3].full_path
    /\ opf_file = rootfiles[2].full_path

\* the primary id was made of the output filename and a timestamp
Synthesized == \E t \in Timestamps : primary_id = Zfn \o <<"-">> \o t

\* the identifier entries parse_metadata recorded
Identifiers ==
    IF "identifier" \in DOMAIN metadata[DC] THEN metadata[DC]["identifier"] ELSE <<>>

\* the merged identifier bucket holds the primary id under the key of the
\* registered source id
Branded ==
    /\ "identifier" \in DOMAIN out_metadata[DC]
    /\ SourceIdOf(Self) \in DOMAIN out_metadata[DC]["identifier"]
    /\ primary_id \in Range(out_metadata[DC]["identifier"][SourceIdOf(Self)])

(* C12, as stated: the primary id is the value of the first identifier     *)
(* entry whenever an entry exists, and is synthesized, with the source id  *)
(* taken as absent, only when no entry exists.                             *)
C12_AsStated ==
    meta_pc \in {"ids", "merged", "done"} =>
        IF Identifiers # <<>>
        THEN primary_id = Identifiers[1][1]
        ELSE Synthesized /\ src_id = None

(* C12: the primary id is the value of the first identifier entry when     *)
(* there is one and it has a value, and the source id is then the          *)
(* registered one; when there is no entry, or the first entry has no text, *)
(* the primary id is synthesized from the output filename and a timestamp, *)
(* the source id is taken as absent and no source-id bucket is added, even *)
(* if a source id was registered.                                          *)
C12_PrimaryId ==
    meta_pc \in {"ids", "merged", "done"} =>
        IF Identifiers # <<>> /\ Identifiers[1][1] # None
        THEN primary_id = Identifiers[1][1] /\ src_id = SourceIdOf(Self)
        ELSE /\ Synthesized
             /\ src_id = None
             /\ meta_pc = "done" => ~Branded

\* the conversion is over with a synthesized primary id although a source
\* id was registered and a later identifier has a value
C12_Witness ==
    /\ meta_pc = "done"
    /\ SourceIdOf(Self) \in SourceIds
    /\ Len(Identifiers) = 2
    /\ Identifiers[1][1] = None
    /\ Identifiers[2][1] # None
    /\ Synthesized
    /\ src_id = None

\* the step from the merged metadata to the finished metadata
Finishing == meta_pc = "merged" /\ meta_pc' = "done"

\* the Dublin-Core section but for its identifier bucket
BesidesIdentifiers(md) ==
    [k \in DOMAIN md[DC] \ {"identifier"} |-> md[DC][k]]

(* C13, as stated: whenever a source id was registered and the merged      *)
(* identifier bucket has no entry under it, the primary id is added under  *)
(* it.                                                                     *)
C13_AsStated ==
    [][(/\ Finishing
        /\ SourceIdOf(Self) # None
        /\ "identifier" \in DOMAIN out_metadata[DC]
        /\ SourceIdOf(Self) \notin DOMAIN out_metadata[DC]["identifier"])
           => out_metadata'[DC]["identifier"] =
                  (SourceIdOf(Self) :> <<primary_id>>) @@ out_metadata[DC]["identifier"]]_vars

(* C13: when a source id was registered and the primary id was taken from  *)
(* an identifier entry, the end of the merge adds the primary id under the *)
(* source id if the merged identifier bucket has no entry under it, and    *)
(* leaves the bucket as it is otherwise; every other entry of the bucket   *)
(* is unchanged in both cases.                                             *)
C13_BrandedId ==
    [][(Finishing /\ SourceIdOf(Self) # None /\ ~Synthesized)
           => /\ "identifier" \in DOMAIN out_metadata[DC]
              /\ out_metadata'[DC]["identifier"] =
                    IF SourceIdOf(Self) \in DOMAIN out_metadata[DC]["identifier"]
                    THEN out_metadata[DC]["identifier"]
                    ELSE (SourceIdOf(Self) :> <<primary_id>>)
                             @@ out_metadata[DC]["identifier"]
              /\ BesidesIdentifiers(out_metadata') = BesidesIdentifiers(out_metadata)]_vars

\* the primary id was added under the source id, beside the entry the
\* identifier itself made
C13_Witness ==
    /\ meta_pc = "done"
    /\ SourceIdOf(Self) \in SourceIds
    /\ ~Synthesized
    /\ \A i \in DOMAIN Identifiers : ~Carries(Identifiers[i][2], <<"scheme">>, SourceIdOf(Self))
    /\ DOMAIN out_metadata[DC]["identifier"] = {<<>>, SourceIdOf(Self)}
    /\ out_metadata[DC]["identifier"][SourceIdOf(Self)] = <<primary_id>>

(* C14: every link of a spine file is looked up in the media rename map    *)
(* under the link joined to the directory of the file that holds it, and   *)
(* is replaced by the mapped output path when the map has it and left as   *)
(* it is otherwise, also for a file outside the package document's         *)
(* directory.                                                              *)
C14_LinksResolvedFromFile ==
    links_pc = "done" =>
        \A i \in DOMAIN links :
            LET resolved == join(dirname(link_file), links[i])
            IN  new_links[i] =
                    IF resolved \in DOMAIN media_map THEN media_map[resolved] ELSE links[i]

\* the split markers of the file, in the order in which they stand
SplitMarkers ==
    SelectSeq(mk_body, LAMBDA e : e.tag = "hr" /\ e.attrs["class"] = MARKER_CLASS_SPLIT)

\* the breaks get_chapter_breaks found for the file
FileBreaks == DictGet(splits, mk_file, <<>>)

\* the marker is the one that the break's navigation point asks for
MarkerOf(e, point) ==
    /\ e.tag = "hr"
    /\ DOMAIN e.attrs = {"id", "class", "title", "subsections"}
    /\ e.attrs["id"] = point.id
    /\ e.attrs["class"] = MARKER_CLASS_SPLIT
    /\ LET label == find_good_label(point.labels, mk_lang, KeyOrder(point.labels))
       IN  e.attrs["title"] = IF label \in {None, <<>>} THEN S_untitled ELSE label
    /\ e.attrs["subsections"] = <<"True">> <=> Len(point.points) >= 1
    /\ e.attrs["subsections"] \in {<<"True">>, <<"False">>}

(* C15: every split marker that concat_document inserts for a chapter      *)
(* break has the id of the break's navigation point, the split-marker      *)
(* class, as title the point's resolved label or 'untitled' when no label  *)
(* resolves, and a subsections flag that is true exactly when the point    *)
(* has a child; there is one marker for each break of the file.            *)
C15_MarkerAttributes ==
    markers_pc = "done" =>
        /\ Len(SplitMarkers) = Len(FileBreaks)
        /\ \A i \in DOMAIN SplitMarkers :
              \E j \in DOMAIN FileBreaks : MarkerOf(SplitMarkers[i], FileBreaks[j][3])
        /\ \A j \in DOMAIN FileBreaks :
              \E i \in DOMAIN SplitMarkers : MarkerOf(SplitMarkers[i], FileBreaks[j][3])

\* a file took a marker titled 'untitled' for a point with children and a
\* marker with a resolved title for a point without
C15_Witness ==
    /\ markers_pc = "done"
    /\ \E i, j \in DOMAIN SplitMarkers :
          /\ SplitMarkers[i].attrs["title"] = S_untitled
          /\ SplitMarkers[i].attrs["subsections"] = <<"True">>
          /\ SplitMarkers[j].attrs["title"] \in {<<"T">>, <<"E">>}
          /\ SplitMarkers[j].attrs["subsections"] = <<"False">>

\* the calls of bz.add_to_package made for chapters, and for other files
ChapterCalls == SelectSeq(bz_entries, LAMBDA e : e[3] = "text/html")
MediaCalls == SelectSeq(bz_entries, LAMBDA e : e[3] # "text/html")

\* the chapters that are not empty, in the order of the splitter
RECURSIVE Surviving(_)
Surviving(cs) ==
    IF cs = <<>> THEN <<>>
    ELSE (IF NotEmpty(cs[1]) THEN <<cs[1]>> ELSE <<>>) \o Surviving(Tail(cs))

\* the manifest items that are not markup
MediaItems == {id \in DOMAIN manifest : manifest[id][2] \notin MARKUP_TYPES}

(* C16: after the chapters are written the spine is the ids of the         *)
(* chapters that are not empty, in the splitter's order; the archive has   *)
(* one entry for each of them, at '<id>.html', and one entry for each      *)
(* manifest item that is not markup, at the item's path in the rename map; *)
(* no empty chapter is in the spine or among the entries.                  *)
C16_SpineAndEntries ==
    toc_pc = "toc" =>
        /\ spine = [i \in DOMAIN Surviving(chapters) |-> Surviving(chapters)[i].ID]
        /\ ChapterCalls =
              [i \in DOMAIN spine |-> <<spine[i], spine[i] \o S_html, "text/html">>]
        /\ Len(MediaCalls) = Cardinality(MediaItems)
        /\ \A id \in MediaItems :
              \E i \in DOMAIN MediaCalls :
                  MediaCalls[i] = <<id, media_map[manifest[id][1]], manifest[id][2]>>
        /\ \A i \in DOMAIN chapters :
              ~NotEmpty(chapters[i]) =>
                  /\ ~InList(chapters[i].ID, spine)
                  /\ \A j \in DOMAIN bz_entries : bz_entries[j][1] # chapters[i].ID

\* an empty chapter stands between two that are written, and the manifest
\* holds a markup item and another file
C16_Witness ==
    /\ toc_pc = "toc"
    /\ NotEmpty(chapters[1]) /\ ~NotEmpty(chapters[2]) /\ NotEmpty(chapters[3])
    /\ Len(spine) = 2
    /\ Cardinality(MediaItems) = 1
    /\ Cardinality(DOMAIN manifest) = 2
    /\ Len(bz_entries) = 3

\* the spine, or its toc attribute, names an id that the manifest lacks
NamesMissingId ==
    \/ opf_spine.toc \notin DOMAIN opf_items
    \/ \E i \in DOMAIN opf_spine.idrefs : opf_spine.idrefs[i] \notin DOMAIN opf_items

(* C17: a package whose spine, or whose spine toc attribute, names an id   *)
(* absent from the manifest is parsed by parse_opf without error (the      *)
(* failure comes later, where the id is looked up).  The spine has a toc   *)
(* attribute and the metadata section parses.                              *)
C17_MissingIdParsesClean ==
    (/\ opf_pc \in {"parsed", "KeyError"}
     /\ ~UnknownPrefix(md_elems, md_nsmap)
     /\ opf_spine.toc # None
     /\ NamesMissingId)
        => opf_pc = "parsed"

(* C18: when parse_opf raises, the Epub object exposes no metadata,        *)
(* manifest, media rename map or spine of the failed parse.                *)
C18_NoPartialResult ==
    opf_pc = "KeyError" =>
        /\ metadata = Unset
        /\ manifest = Unset
        /\ media_map = Unset
        /\ epub_spine = Unset

(* C19: two conversions on distinct Epub objects share no mutable state:   *)
(* each object sees the source id last registered on it, and none if none  *)
(* was, whatever is registered on the other; and the deferred_urls list of *)
(* one make_bookizip call is another list than the other call's and holds  *)
(* tocpoints of its own call only.                                         *)
C19_NoSharedState ==
    /\ \A o \in Objs : SourceIdOf(o) = registered[o]
    /\ \A o, q \in Objs :
          (o # q /\ deferred_ref[o] # 0 /\ deferred_ref[q] # 0)
              => deferred_ref[o] # deferred_ref[q]
    /\ \A o \in Objs :
          deferred_ref[o] # 0 =>
              \A i \in DOMAIN heap[deferred_ref[o]] : heap[deferred_ref[o]][i][1] = o

\* both calls are under way with tocpoints pending, one object has an id
\* registered and the other has none
C19_Witness ==
    /\ two_pc = [o \in Objs |-> "toc"]
    /\ \A o \in Objs : heap[deferred_ref[o]] # <<>>
    /\ registered["e1"] = <<"S">>
    /\ registered["e2"] = None
    /\ SourceIdOf("e1") = <<"S">>
    /\ SourceIdOf("e2") = None

\* the place of the first '#' of a content source, 0 when it has none
FirstHash(src) ==
    IF \E i \in DOMAIN src : src[i] = "#"
    THEN CHOOSE i \in DOMAIN src : src[i] = "#" /\ \A j \in 1..(i - 1) : src[j] # "#"
    ELSE 0

\* the fragment of a content source: what follows its first '#'
FragmentOf(src) ==
    IF FirstHash(src) = 0 THEN None ELSE SubSeq(src, FirstHash(src) + 1, Len(src))

\* the file of a content source: what stands before its first '#', under
\* the directory of the navigation document
FileOf(src) ==
    join(pwd, IF FirstHash(src) = 0 THEN src ELSE SubSeq(src, 1, FirstHash(src) - 1))

\* the entries of the serialized sequence that point into the file
EntriesOf(file) ==
    SelectSeq(serial_points, LAMBDA e : FileOf(e[2].content_src) = file)

C21_NoEmptyTextSlot ==
    sources # <<>> =>
        /\ dbody.text # <<>>
        /\ dbody.tail # <<>>
        /\ \A i \in DOMAIN dbody.children : dbody.children[i].tail # <<>>

\* the elements the file had when it was parsed, in the order in which they
\* stand now
FileElements == SelectSeq(mk_body, LAMBDA e : e.tag = "p")

\* the place at which the element of that uid stands now
PlaceOf(uid) == IndexOf(mk_body, uid)

\* the marker made for the k-th break of the file: add_marker gives the
\* k-th new element the k-th uid after those of the file's elements
MarkerUid(k) == Len(FileElements) + k

\* the uid of the anchor of the k-th break: the first element of the file
\* with the fragment as id, the first child of the body when the break has
\* no fragment; 0 when the file has no element of that id
AnchorUid(k) ==
    LET fragment == FileBreaks[k][2]
        named == WithId(FileElements, fragment)
    IN  IF ~Truthy(fragment) THEN 1
        ELSE IF named = <<>> THEN 0
        ELSE named[1].uid

(* C22: in the file as concat_document leaves it, the marker of every      *)
(* break stands before the break's anchor, with nothing but markers of     *)
(* the same anchor between the two; markers of one anchor stand in the     *)
(* serialized order of their breaks; and the elements the file had keep    *)
(* their order.                                                            *)
C22_MarkerBeforeAnchor ==
    markers_pc = "done" =>
        /\ \A i \in DOMAIN FileElements : FileElements[i].uid = i
        /\ \A k \in DOMAIN FileBreaks :
              /\ AnchorUid(k) # 0
              /\ PlaceOf(MarkerUid(k)) < PlaceOf(AnchorUid(k))
              /\ \A j \in (PlaceOf(MarkerUid(k)) + 1)..(PlaceOf(AnchorUid(k)) - 1) :
                    /\ mk_body[j].tag = "hr"
                    /\ AnchorUid(mk_body[j].uid - Len(FileElements)) = AnchorUid(k)
        /\ \A k1, k2 \in DOMAIN FileBreaks :
              k1 < k2 /\ AnchorUid(k1) = AnchorUid(k2) =>
                  PlaceOf(MarkerUid(k1)) < PlaceOf(MarkerUid(k2))

\* the tocpoint made last is that of a point whose chapter survives
LastVisitSurvives == made_for # <<>> /\ InList(made_for[Len(made_for)].id, spine)

(* C23: write_toc never raises, whatever the navigation tree and the       *)
(* surviving chapters: when the point of a surviving chapter is visited,   *)
(* the log line of the back-patch raises no KeyError, also for a pending   *)
(* tocpoint without title, and all pending tocpoints have then been        *)
(* served.                                                                 *)
C23_LoggingNeverRaises ==
    /\ toc_pc \notin {"KeyError", "TypeError"}
    /\ LastVisitSurvives => deferred_urls = <<>>

\* the tocpoints that hold no url
Unresolved == {n \in DOMAIN nodes : "url" \notin DOMAIN nodes[n]}

\* the places of the points that do not survive and have no surviving
\* point after them in pre-order
Trailing ==
    {p \in Places(points) :
        ~Survives(p) /\ ~\E q \in Places(points) : Before(p, q) /\ Survives(q)}

\* the loop over the top-level points has called write_toc for all of them
TraversalOver == toc_pc = "toc" /\ stack = <<>> /\ top_i > Len(points)

(* C24: when the traversal is over, deferred_urls holds, once each, the    *)
(* tocpoints without url, which are those of the points that do not        *)
(* survive and are visited after the last surviving point; right after     *)
(* the visit of a surviving point deferred_urls is empty; and the          *)
(* traversal ends the same with deferred_urls empty or not.                *)
C24_PendingAtEnd ==
    /\ toc_pc = "done" =>
          /\ Range(deferred_urls) = Unresolved
          /\ Cardinality(Unresolved) = Len(deferred_urls)
          /\ Unresolved = {NodeIn(toc, p) : p \in Trailing}
    /\ toc_pc = "toc" /\ LastVisitSurvives => deferred_urls = <<>>
    /\ TraversalOver => ENABLED TocEnd

\* the table of contents is done with the last tocpoint pending, after
\* one that was served by a surviving point
C24_Witness ==
    /\ toc_pc = "done"
    /\ Len(points) = 3
    /\ ~Survives(<<1>>) /\ Survives(<<2>>) /\ ~Survives(<<3>>)
    /\ "url" \in DOMAIN NodeAt(<<1>>)
    /\ deferred_urls = <<toc[3]>>

\* the merge was reached (lines 297-302 have chosen the ids) and an
\* exception ended it
MergeRaised == meta_pc = "KeyError" /\ primary_id # Unset

(* C25: the merge of self.metadata in make_bookizip ends without error     *)
(* for every metadata store, and the metadata it makes hold a Dublin-Core  *)
(* section and non-empty 'book' and 'server' entries in the FLOSS-Manuals  *)
(* section, also when the store holds FLOSS-Manuals entries none of which  *)
(* is named 'book' or 'server'.                                            *)
C25_MergeCompletes ==
    /\ ~MergeRaised
    /\ meta_pc = "done" =>
          /\ {DC, FM} \subseteq DOMAIN out_metadata
          /\ {"book", "server"} \subseteq DOMAIN out_metadata[FM]
          /\ out_metadata[FM]["book"] # EmptyDict
          /\ out_metadata[FM]["server"] # EmptyDict

====
